---------------------------- MODULE Spec2Model ----------------------------
(***************************************************************************)
(* A model of the FunSQL compiler: node construction (label maps), the     *)
(* render pipeline annotate -> resolve -> link -> translate -> serialize,  *)
(* the reference types with intersect / union / is_subset, reference       *)
(* validation, alias allocation and the serialization of bind variables.   *)
(*                                                                         *)
(* Python objects are modelled as records.  Symbols are strings.  A        *)
(* Python dict whose iteration order is observable is an association       *)
(* list (a sequence of records); object identity of a node is an integer   *)
(* field (id for user nodes, oid for rewritten reference nodes, the index  *)
(* in the box list for a Box).                                             *)
(***************************************************************************)
EXTENDS Integers, Sequences, FiniteSets, TLC

VARIABLES
    query,      \* the user node handed to render (a blueprint until constructed)
    depth,      \* the RenderDepth argument of render, 1..5
    pc,         \* position of the caller / of render
    actx,       \* the AnnotateContext
    tctx,       \* the TranslateContext
    node_annotated, \* render's local: the root box annotate returned
    output_clause,  \* render's local: the clause tree translate returned
    output,     \* what render returned
    err,        \* the diagnostic raised, with the pass that raised it
    passes,     \* the passes run so far, in order
    lm,         \* one run of populate_label_map
    vl,         \* one call of validate
    al,         \* a sequence of allocate_alias calls on one TranslateContext
    sr,         \* the serialization of a sequence of VAR clauses
    fc          \* one call of a function of the compiler on its own

vars ==
    <<query, depth, pc, actx, tctx, node_annotated, output_clause, output, err, passes,
      lm, vl, al, sr, fc>>

(***************************************************************************)
(* Bounds of the model.                                                    *)
(***************************************************************************)
MaxArgs == 3        \* args of a node given to populate_label_map
MaxChain == 2       \* NameBound links of a reference given to validate
MaxCalls == 4       \* allocate_alias calls on one TranslateContext
MaxVars == 4        \* VAR clauses serialized into one SQLString
MaxStages == 2      \* stages chained over a source in the generated queries
MaxRounds == 4      \* rounds of a Knot fixed-point loop before it is cut

Null == [kind |-> "None"]

\* fold helpers over sequences
RECURSIVE SeqToSet(_)
SeqToSet(s) == IF s = <<>> THEN {} ELSE {Head(s)} \cup SeqToSet(Tail(s))

Max(a, b) == IF a >= b THEN a ELSE b

(***************************************************************************)
(* Association lists: Python dicts whose insertion order is observable.    *)
(***************************************************************************)
RECURSIVE DHas(_, _)
DHas(d, key) ==
    IF d = <<>> THEN FALSE
    ELSE IF Head(d).key = key THEN TRUE ELSE DHas(Tail(d), key)

RECURSIVE DGet(_, _, _)
DGet(d, key, default) ==
    IF d = <<>> THEN default
    ELSE IF Head(d).key = key THEN Head(d).val ELSE DGet(Tail(d), key, default)

RECURSIVE DPut(_, _, _)
DPut(d, key, val) ==
    IF d = <<>> THEN <<[key |-> key, val |-> val]>>
    ELSE IF Head(d).key = key THEN <<[key |-> key, val |-> val]>> \o Tail(d)
    ELSE <<Head(d)>> \o DPut(Tail(d), key, val)

DKeys(d) == [i \in 1..Len(d) |-> d[i].key]
DKeySet(d) == {d[i].key : i \in 1..Len(d)}

RECURSIVE DUpdate(_, _)
DUpdate(d, more) ==
    IF more = <<>> THEN d
    ELSE DUpdate(DPut(d, Head(more).key, Head(more).val), Tail(more))

(***************************************************************************)
(* The catalog, and the sources of a From node.                            *)
(***************************************************************************)
\* An Optional[...] attribute is a sequence of at most one element: <<>> is None.
SQLTable(name, columns) ==
    [k |-> "SQLTable", name |-> name, columns |-> columns, schema |-> <<>>]
ValuesTable(columns, data) == [k |-> "ValuesTable", columns |-> columns, data |-> data]
Symbol(name) == [k |-> "Symbol", name |-> name]
NoSource == [k |-> "None"]

person == SQLTable("person", <<"person_id", "name", "year_of_birth">>)
visit == SQLTable("visit", <<"visit_id", "person_id", "visit_start_date">>)
catalog == <<[key |-> "person", val |-> person], [key |-> "visit", val |-> visit]>>

(***************************************************************************)
(* label: the default alias of a node.  The label of None and of a         *)
(* literal is "_"; a wrapper takes the label of the node under it.         *)
(***************************************************************************)
RECURSIVE label(_)
label(node) ==
    CASE node.kind = "None" -> "_"
      [] node.kind \in {"Agg", "Fun", "Get", "As"} -> node.name
      [] node.kind = "Append" ->
            LET Let_lbl(lbl) ==
                    IF \A i \in 1..Len(node.args) : label(node.args[i]) = lbl
                    THEN lbl ELSE "union"
            IN Let_lbl(label(node.over))
      [] node.kind = "From" ->
            IF node.source.k \in {"SQLTable", "Symbol"} THEN node.source.name
            ELSE "_"
      [] node.kind = "Lit" -> "_"
      [] node.kind \in {"IntIterate", "Knot"} -> node.name
      [] OTHER -> label(node.over)

(***************************************************************************)
(* populate_label_map: the loop of nodes.py, one arg at a time.  The       *)
(* result carries the dict built so far and the duplicated label, if the   *)
(* loop raised ErrDuplicateLabel.                                          *)
(***************************************************************************)
\* a faulty variant of populate_label_map_from: a label met again takes the
\* place of the earlier one instead of raising
RECURSIVE populate_label_map_last(_, _, _)
populate_label_map_last(args, i, label_map) ==
    IF i > Len(args) THEN [raised |-> FALSE, name |-> "", label_map |-> label_map]
    ELSE populate_label_map_last(args, i + 1, DPut(label_map, label(args[i]), i - 1))

RECURSIVE populate_label_map_from(_, _, _)
populate_label_map_from(args, i, label_map) ==
    IF i > Len(args) THEN [raised |-> FALSE, name |-> "", label_map |-> label_map]
    ELSE LET Let_name(name) ==
                 IF DHas(label_map, name)
                 THEN [raised |-> TRUE, name |-> name, label_map |-> label_map]
                 ELSE populate_label_map_from(args, i + 1, DPut(label_map, name, i - 1))
         IN Let_name(label(args[i]))

populate_label_map(args) == populate_label_map_from(args, 1, <<>>)

(***************************************************************************)
(* The user-facing nodes.  id stands for the identity of the Python        *)
(* object: one object used at two places of a query has one id.  A node    *)
(* with a label_map runs populate_label_map in its constructor; dup        *)
(* records the ErrDuplicateLabel the constructor raised.                   *)
(***************************************************************************)
Get(name, over) == [kind |-> "Get", name |-> name, over |-> over]
Agg(name, args, over) ==
    [kind |-> "Agg", name |-> name, args |-> args, distinct |-> FALSE,
     filter_ |-> Null, over |-> over]
Fun(name, args) == [kind |-> "Fun", name |-> name, args |-> args]
Lit(val) == [kind |-> "Lit", val |-> val]
Var(name) == [kind |-> "Var", name |-> name]
Sort(value, over) == [kind |-> "Sort", value |-> value, nulls |-> <<>>, over |-> over]
As(id, name, over) == [kind |-> "As", id |-> id, name |-> name, over |-> over]
From(id, source) == [kind |-> "From", id |-> id, source |-> source]
Where(id, condition, over) ==
    [kind |-> "Where", id |-> id, condition |-> condition, over |-> over]
Limit(id, limit, offset, over) ==
    [kind |-> "Limit", id |-> id, limit |-> limit, offset |-> offset, over |-> over]
Order(id, by, over) == [kind |-> "Order", id |-> id, by |-> by, over |-> over]
AppendNode(id, args, over) == [kind |-> "Append", id |-> id, args |-> args, over |-> over]
Iterate(id, iterator, over) ==
    [kind |-> "Iterate", id |-> id, iterator |-> iterator, over |-> over]
Join(id, joinee, on, left, right, over) ==
    [kind |-> "Join", id |-> id, joinee |-> joinee, on |-> on, left |-> left,
     right |-> right, skip |-> FALSE, over |-> over]
Partition(id, by, order_by, over) ==
    [kind |-> "Partition", id |-> id, by |-> by, order_by |-> order_by, over |-> over]

Select(id, args, over) ==
    LET Let_r(r) ==
            [kind |-> "Select", id |-> id, args |-> args, label_map |-> r.label_map,
             dup |-> r.raised, over |-> over]
    IN Let_r(populate_label_map(args))
Define(id, args, over) ==
    LET Let_r(r) ==
            [kind |-> "Define", id |-> id, args |-> args, label_map |-> r.label_map,
             dup |-> r.raised, over |-> over]
    IN Let_r(populate_label_map(args))
Group(id, by, over) ==
    LET Let_r(r) ==
            [kind |-> "Group", id |-> id, by |-> by, label_map |-> r.label_map,
             dup |-> r.raised, over |-> over]
    IN Let_r(populate_label_map(by))
Bind(id, args, over) ==
    LET Let_r(r) ==
            [kind |-> "Bind", id |-> id, args |-> args, label_map |-> r.label_map,
             dup |-> r.raised, over |-> over]
    IN Let_r(populate_label_map(args))
With(id, args, over) ==
    LET Let_r(r) ==
            [kind |-> "With", id |-> id, args |-> args, materialized |-> <<>>,
             label_map |-> r.label_map, dup |-> r.raised, over |-> over]
    IN Let_r(populate_label_map(args))

LabelMapKinds == {"Select", "Define", "Group", "Bind", "With"}

\* the constructor of the class named by kind, applied to args
NewNode(kind, args) ==
    CASE kind = "Select" -> Select(1, args, Null)
      [] kind = "Define" -> Define(1, args, Null)
      [] kind = "Group" -> Group(1, args, Null)
      [] kind = "Bind" -> Bind(1, args, Null)
      [] kind = "With" -> With(1, args, Null)

\* the list of nodes a constructor handed to populate_label_map
LabelArgs(node) == IF node.kind = "Group" THEN node.by ELSE node.args

(***************************************************************************)
(* The types of references.  EmptyType, ScalarType and AmbiguousType are   *)
(* singletons; UnitType names the same three values.  A RowType keeps its  *)
(* fields in insertion order, and so does the handle_map of a BoxType.     *)
(***************************************************************************)
EmptyType == [k |-> "Empty"]
ScalarType == [k |-> "Scalar"]
AmbiguousType == [k |-> "Ambiguous"]
UnitType == [Empty |-> EmptyType, Scalar |-> ScalarType, Ambiguous |-> AmbiguousType]

RowType(fields, group) == [k |-> "Row", fields |-> fields, group |-> group]
BoxType(name, row, handle_map) ==
    [k |-> "Box", name |-> name, row |-> row, handle_map |-> handle_map]
EMPTY_BOX == BoxType("_", RowType(<<>>, EmptyType), <<>>)

add_handle(typ, handle) ==
    IF handle < 0 THEN typ
    ELSE BoxType(typ.name, typ.row, DPut(typ.handle_map, handle, typ.row))

\* intersect.  The shortcut "if t1 == t2: return t1" compares identities; the
\* loop gives a type equal to t1 then, so the shortcut is not modelled apart.
RECURSIVE intersect(_, _)
RECURSIVE intersect_fields(_, _)
intersect_fields(f1, f2) ==
    IF f1 = <<>> THEN <<>>
    ELSE LET field == Head(f1).key
             Let_rest(rest) ==
                 IF DHas(f2, field)
                 THEN LET Let_t(t) ==
                              IF t.k # "Empty" THEN <<[key |-> field, val |-> t]>> \o rest ELSE rest
                      IN Let_t(intersect(Head(f1).val, DGet(f2, field, EmptyType)))
                 ELSE rest
         IN Let_rest(intersect_fields(Tail(f1), f2))
intersect(t1, t2) ==
    IF t1.k = "Ambiguous" \/ t2.k = "Ambiguous" THEN AmbiguousType
    ELSE IF t1.k = "Scalar" /\ t2.k = "Scalar" THEN ScalarType
    ELSE IF t1.k = "Row" /\ t2.k = "Row"
    THEN RowType(intersect_fields(t1.fields, t2.fields), intersect(t1.group, t2.group))
    ELSE IF t1.k = "Box" /\ t2.k = "Box"
    THEN BoxType(IF t1.name = t2.name THEN t1.name ELSE "union",
                 intersect(t1.row, t2.row),
                 intersect_fields(t1.handle_map, t2.handle_map))
    ELSE EmptyType

RECURSIVE union(_, _)
RECURSIVE union_fields_left(_, _)
union_fields_left(f1, f2) ==
    IF f1 = <<>> THEN <<>>
    ELSE LET ref == Head(f1).key
             t1 == Head(f1).val
             Let_t(t) ==
                 <<[key |-> ref, val |-> t]>> \o union_fields_left(Tail(f1), f2)
             Let_t2(t2) ==
                 Let_t(IF DHas(f2, ref)
                       THEN IF t1.k = "Row" /\ t2.k = "Row" THEN union(t1, t2)
                            ELSE AmbiguousType
                       ELSE t1)
         IN Let_t2(DGet(f2, ref, EmptyType))
\* a faulty variant of union: with a group on both sides that of the right
\* side is taken
union_group_right(t1, t2) ==
    IF t1.k = "Empty" /\ t2.k = "Empty" THEN EmptyType
    ELSE IF t1.k = "Empty" THEN t2
    ELSE IF t2.k = "Empty" THEN t1
    ELSE IF t1.k = "Scalar" /\ t2.k = "Scalar" THEN ScalarType
    ELSE IF t1.k = "Row" /\ t2.k = "Row"
    THEN RowType(union_fields_left(t1.fields, t2.fields)
                    \o SelectSeq(t2.fields, LAMBDA e : ~DHas(t1.fields, e.key)),
                 IF t2.group.k = "Empty" THEN t1.group
                 ELSE t2.group)
    ELSE IF t1.k = "Box" /\ t2.k = "Box"
    THEN BoxType(t1.name, union(t1.row, t2.row),
                 [i \in 1..Len(t1.handle_map) |->
                    IF DHas(t2.handle_map, t1.handle_map[i].key)
                    THEN [key |-> t1.handle_map[i].key, val |-> AmbiguousType]
                    ELSE t1.handle_map[i]]
                    \o SelectSeq(t2.handle_map, LAMBDA e : ~DHas(t1.handle_map, e.key)))
    ELSE AmbiguousType

union(t1, t2) ==
    IF t1.k = "Empty" /\ t2.k = "Empty" THEN EmptyType
    ELSE IF t1.k = "Empty" THEN t2
    ELSE IF t2.k = "Empty" THEN t1
    ELSE IF t1.k = "Scalar" /\ t2.k = "Scalar" THEN ScalarType
    ELSE IF t1.k = "Row" /\ t2.k = "Row"
    THEN RowType(union_fields_left(t1.fields, t2.fields)
                    \o SelectSeq(t2.fields, LAMBDA e : ~DHas(t1.fields, e.key)),
                 IF t2.group.k = "Empty" THEN t1.group
                 ELSE IF t1.group.k = "Empty" THEN t2.group
                 ELSE AmbiguousType)
    ELSE IF t1.k = "Box" /\ t2.k = "Box"
    THEN BoxType(t1.name, union(t1.row, t2.row),
                 [i \in 1..Len(t1.handle_map) |->
                    IF DHas(t2.handle_map, t1.handle_map[i].key)
                    THEN [key |-> t1.handle_map[i].key, val |-> AmbiguousType]
                    ELSE t1.handle_map[i]]
                    \o SelectSeq(t2.handle_map, LAMBDA e : ~DHas(t1.handle_map, e.key)))
    ELSE AmbiguousType

\* is_subset.  The RowType branch looks at the fields only, not at the group.
RECURSIVE is_subset(_, _)
is_subset(t1, t2) ==
    IF t1.k = "Row" /\ t2.k = "Row"
    THEN \A i \in 1..Len(t1.fields) :
            /\ DHas(t2.fields, t1.fields[i].key)
            /\ is_subset(t1.fields[i].val, DGet(t2.fields, t1.fields[i].key, EmptyType))
    ELSE IF t1.k = "Box" /\ t2.k = "Box"
    THEN /\ t1.name = t2.name
         /\ is_subset(t1.row, t2.row)
         /\ \A i \in 1..Len(t1.handle_map) :
               /\ DHas(t2.handle_map, t1.handle_map[i].key)
               /\ is_subset(t1.handle_map[i].val,
                            DGet(t2.handle_map, t1.handle_map[i].key, EmptyType))
    ELSE t1.k = t2.k

(***************************************************************************)
(* The annotate pass.  The context holds the box list, the handles given   *)
(* to nodes used as the target of a bound reference, the CTE scope and a   *)
(* counter for the identities of the reference nodes the pass creates.     *)
(* An exception is the err field of the context: every routine returns at  *)
(* once when it is set, which is how the exception unwinds the Python      *)
(* stack.  A box keeps the id of the user node it was made for (origin),   *)
(* which is what path_map.origins and path_map.paths give get_handle.      *)
(***************************************************************************)
NEGATIVE_INT == -1000

TabularKinds ==
    {"Append", "Define", "From", "Group", "Iterate", "Join", "Limit", "Order",
     "Partition", "Select", "Where", "With"}

AnnotateContext ==
    [boxes |-> <<>>, handles |-> <<>>, cte_nodes |-> <<>>, next_oid |-> 1, err |-> Null]

Raise(ctx, kind, name) == [ctx EXCEPT !.err = [kind |-> kind, name |-> name]]
Failed(ctx) == ctx.err # Null

BoxRef(idx) == [kind |-> "Box", idx |-> idx]
Box(over, origin) ==
    [typ |-> EMPTY_BOX, handle |-> 0, refs |-> <<>>, over |-> over, origin |-> origin]

\* a faulty variant of AppendBox, which makes no second box for a node that
\* has one
AppendBoxOnce(ctx, box) ==
    IF box.over # Null /\ \E i \in 1..Len(ctx.boxes) : ctx.boxes[i].origin = box.origin
    THEN [ctx |-> ctx,
          out |-> BoxRef(CHOOSE i \in 1..Len(ctx.boxes) : ctx.boxes[i].origin = box.origin)]
    ELSE [ctx |-> [ctx EXCEPT !.boxes = Append(@, box)], out |-> BoxRef(Len(ctx.boxes) + 1)]

\* ctx.boxes.append(box), giving the reference to the box appended
AppendBox(ctx, box) ==
    [ctx |-> [ctx EXCEPT !.boxes = Append(@, box)], out |-> BoxRef(Len(ctx.boxes) + 1)]

\* a faulty variant of make_handle, which gives a node that has a handle a
\* new one
make_handle_again(ctx, node) ==
    [ctx EXCEPT !.handles = DPut(@, node.id, Len(ctx.handles))]

make_handle(ctx, node) ==
    IF DHas(ctx.handles, node.id) THEN ctx
    ELSE [ctx EXCEPT !.handles = DPut(@, node.id, Len(ctx.handles))]

get_handle(ctx, box) ==
    IF box.over = Null \/ box.origin < 0 THEN NEGATIVE_INT
    ELSE DGet(ctx.handles, box.origin, NEGATIVE_INT)

\* a faulty variant of extend_cte_nodes, in which a name that is defined
\* already keeps its definition
extend_cte_nodes_outer(ctx, more_nodes) ==
    [ctx EXCEPT !.cte_nodes = DUpdate(more_nodes, @)]

\* the entry of `with ctx.extend_cte_nodes(more_nodes)`; the exit is the
\* assignment of the old cte_nodes where the code reaches it
extend_cte_nodes(ctx, more_nodes) ==
    [ctx EXCEPT !.cte_nodes = DUpdate(@, more_nodes)]

\* the rewritten reference nodes; oid is the identity of the object
NameBound(oid, over, name) == [kind |-> "NameBound", oid |-> oid, over |-> over, name |-> name]
HandleBound(oid, over, handle) ==
    [kind |-> "HandleBound", oid |-> oid, over |-> over, handle |-> handle]
NewGet(oid, name) == [kind |-> "Get", oid |-> oid, name |-> name, over |-> Null]

RECURSIVE rebind(_, _, _)
rebind(parent, node_isolated, ctx) ==
    IF parent.kind = "Get"
    THEN rebind(parent.over,
                NameBound(ctx.next_oid, node_isolated, parent.name),
                [ctx EXCEPT !.next_oid = @ + 1])
    ELSE IF parent # Null
    THEN LET Let_c1(c1) ==
                 [ctx |-> [c1 EXCEPT !.next_oid = @ + 1],
                  out |-> HandleBound(ctx.next_oid, node_isolated, DGet(c1.handles, parent.id, 0))]
         IN Let_c1(make_handle(ctx, parent))
    ELSE [ctx |-> ctx, out |-> node_isolated]

RECURSIVE annotate(_, _)
RECURSIVE annotate_list(_, _)
RECURSIVE annotate_scalar(_, _)
RECURSIVE annotate_scalar_list(_, _)
RECURSIVE annotate_node(_, _)
RECURSIVE annotate_node_scalar(_, _)

\* a faulty variant of annotate, which appends the box of a node before the
\* boxes of the nodes under it
annotate_box_first(node, ctx) ==
    IF Failed(ctx) THEN [ctx |-> ctx, out |-> Null]
    ELSE IF node = Null THEN AppendBox(ctx, Box(Null, NEGATIVE_INT))
    ELSE IF node.kind \notin TabularKinds \cup {"As", "Bind"}
    THEN [ctx |-> Raise(ctx, "ill-formed", ""), out |-> Null]
    ELSE LET at == Len(ctx.boxes) + 1
             Let_r(r) ==
                 IF Failed(r.ctx) THEN [ctx |-> r.ctx, out |-> Null]
                 ELSE [ctx |-> [r.ctx EXCEPT !.boxes[at].over = r.out], out |-> BoxRef(at)]
         IN Let_r(annotate_node(node, [ctx EXCEPT !.boxes = Append(@, Box(Null, node.id))]))

annotate(node, ctx) ==
    IF Failed(ctx) THEN [ctx |-> ctx, out |-> Null]
    ELSE IF node = Null THEN AppendBox(ctx, Box(Null, NEGATIVE_INT))
    ELSE IF node.kind \notin TabularKinds \cup {"As", "Bind"}
    THEN [ctx |-> Raise(ctx, "ill-formed", ""), out |-> Null]
    ELSE LET Let_r(r) ==
                 IF Failed(r.ctx) THEN [ctx |-> r.ctx, out |-> Null]
                 ELSE AppendBox(r.ctx, Box(r.out, node.id))
         IN Let_r(annotate_node(node, ctx))

annotate_list(nodes, ctx) ==
    IF nodes = <<>> THEN [ctx |-> ctx, out |-> <<>>]
    ELSE LET Let_rs(r, rs) ==
                 [ctx |-> rs.ctx, out |-> <<r.out>> \o rs.out]
             Let_r(r) ==
                 IF Failed(r.ctx) THEN [ctx |-> r.ctx, out |-> <<>>]
                 ELSE Let_rs(r, annotate_list(Tail(nodes), r.ctx))
         IN Let_r(annotate(Head(nodes), ctx))

annotate_scalar(node, ctx) ==
    IF Failed(ctx) \/ node = Null THEN [ctx |-> ctx, out |-> Null]
    ELSE IF node.kind \in TabularKinds THEN annotate(node, ctx)
    ELSE annotate_node_scalar(node, ctx)

annotate_scalar_list(nodes, ctx) ==
    IF nodes = <<>> THEN [ctx |-> ctx, out |-> <<>>]
    ELSE LET Let_rs(r, rs) ==
                 [ctx |-> rs.ctx, out |-> <<r.out>> \o rs.out]
             Let_r(r) ==
                 IF Failed(r.ctx) THEN [ctx |-> r.ctx, out |-> <<>>]
                 ELSE Let_rs(r, annotate_scalar_list(Tail(nodes), r.ctx))
         IN Let_r(annotate_scalar(Head(nodes), ctx))

annotate_node_scalar(node, ctx) ==
    CASE node.kind = "Agg" ->
            LET Let_node_p(f, node_p) ==
                    IF Failed(f.ctx) THEN [ctx |-> f.ctx, out |-> Null]
                    ELSE rebind(node.over, node_p, [f.ctx EXCEPT !.next_oid = @ + 1])
                Let_f(a, f) ==
                    Let_node_p(f,
                               [kind |-> "Agg", oid |-> f.ctx.next_oid, name |-> node.name,
                                args |-> a.out, distinct |-> node.distinct,
                                filter_ |-> f.out, over |-> Null])
                Let_a(a) ==
                    Let_f(a, annotate_scalar(node.filter_, a.ctx))
            IN Let_a(annotate_scalar_list(node.args, ctx))
      [] node.kind = "As" ->
            LET Let_o(o) ==
                    [ctx |-> o.ctx, out |-> [node EXCEPT !.over = o.out]]
            IN Let_o(annotate_scalar(node.over, ctx))
      [] node.kind = "Bind" -> annotate_node(node, ctx)
      [] node.kind = "Fun" ->
            LET Let_a(a) ==
                    [ctx |-> a.ctx, out |-> [node EXCEPT !.args = a.out]]
            IN Let_a(annotate_scalar_list(node.args, ctx))
      [] node.kind = "Get" ->
            rebind(node.over, NewGet(ctx.next_oid, node.name),
                   [ctx EXCEPT !.next_oid = @ + 1])
      [] node.kind \in {"Lit", "Var"} -> [ctx |-> ctx, out |-> node]
      [] node.kind = "Sort" ->
            LET Let_o(o) ==
                    [ctx |-> o.ctx, out |-> [node EXCEPT !.over = o.out]]
            IN Let_o(annotate_scalar(node.over, ctx))

\* over_p = annotate(node.over, ctx), then a list of scalars, then the node
\* rebuilt over the box; the shape shared by Define, Group, Order, Select, Where
WithOver(node, ctx) ==
    LET Let_o(o) ==
            [ctx |-> o.ctx, out |-> [node EXCEPT !.over = o.out]]
    IN Let_o(annotate(node.over, ctx))

annotate_node(node, ctx) ==
    CASE node.kind = "Append" ->
            LET Let_a(o, a) ==
                    [ctx |-> a.ctx, out |-> [node EXCEPT !.over = o.out, !.args = a.out]]
                Let_o(o) ==
                    IF Failed(o.ctx) THEN [ctx |-> o.ctx, out |-> Null]
                    ELSE Let_a(o, annotate_list(node.args, o.ctx))
            IN Let_o(annotate(node.over, ctx))
      [] node.kind \in {"As", "Limit"} -> WithOver(node, ctx)
      [] node.kind = "Bind" ->
            LET Let_a(o, a) ==
                    [ctx |-> a.ctx,
                     out |-> [kind |-> "IntBind", args |-> a.out, owned |-> FALSE,
                              label_map |-> node.label_map, over |-> o.out]]
                Let_o(o) ==
                    IF Failed(o.ctx) THEN [ctx |-> o.ctx, out |-> Null]
                    ELSE Let_a(o, annotate_scalar_list(node.args, o.ctx))
            IN Let_o(annotate(node.over, ctx))
      [] node.kind \in {"Define", "Select"} ->
            LET Let_a(o, a) ==
                    [ctx |-> a.ctx, out |-> [node EXCEPT !.over = o.out, !.args = a.out]]
                Let_o(o) ==
                    IF Failed(o.ctx) THEN [ctx |-> o.ctx, out |-> Null]
                    ELSE Let_a(o, annotate_scalar_list(node.args, o.ctx))
            IN Let_o(annotate(node.over, ctx))
      [] node.kind = "From" ->
            IF node.source.k = "SQLTable"
            THEN [ctx |-> ctx, out |-> [kind |-> "FromTable", table |-> node.source]]
            ELSE IF node.source.k = "Symbol"
            THEN LET Let_table(over, table) ==
                         IF over # Null
                         THEN [ctx |-> ctx,
                               out |-> [kind |-> "FromReference", name |-> node.source.name,
                                        over |-> over]]
                         ELSE IF table # NoSource
                         THEN [ctx |-> ctx, out |-> [kind |-> "FromTable", table |-> table]]
                         ELSE [ctx |-> Raise(ctx, "undefined-table-ref", node.source.name),
                               out |-> Null]
                     Let_over(over) ==
                         Let_table(over, DGet(catalog, node.source.name, NoSource))
                 IN Let_over(DGet(ctx.cte_nodes, node.source.name, Null))
            ELSE IF node.source.k = "ValuesTable"
            THEN [ctx |-> ctx, out |-> [kind |-> "FromValues", source |-> node.source]]
            ELSE [ctx |-> ctx, out |-> [kind |-> "FromNothing"]]
      [] node.kind \in {"Group", "Order"} ->
            LET Let_b(o, b) ==
                    [ctx |-> b.ctx, out |-> [node EXCEPT !.over = o.out, !.by = b.out]]
                Let_o(o) ==
                    IF Failed(o.ctx) THEN [ctx |-> o.ctx, out |-> Null]
                    ELSE Let_b(o, annotate_scalar_list(node.by, o.ctx))
            IN Let_o(annotate(node.over, ctx))
      [] node.kind = "Iterate" ->
            LET Let_c2(o, at, name, it, c2) ==
                    IF Failed(it.ctx) THEN [ctx |-> it.ctx, out |-> Null]
                    ELSE [ctx |-> c2,
                          out |-> [kind |-> "IntIterate", name |-> label(node.over),
                                   iterator_name |-> name, over |-> BoxRef(at)]]
                Let_it(o, at, name, it) ==
                    Let_c2(o, at, name, it,
                           [it.ctx EXCEPT
                              !.cte_nodes = o.ctx.cte_nodes,
                              !.boxes[at].over.iterator = it.out,
                              !.boxes[at].over.iterator_boxes =
                                 [i \in 1..(Len(it.ctx.boxes) - at) |-> at + i]])
                Let_c1(o, at, name, c1) ==
                    Let_it(o, at, name, annotate(node.iterator, c1))
                Let_knot(o, at, name, knot) ==
                    Let_c1(o, at, name,
                           extend_cte_nodes(
                              [o.ctx EXCEPT !.boxes = Append(@, Box(knot, node.id))],
                              <<[key |-> name, val |-> BoxRef(at)]>>))
                Let_name(o, at, name) ==
                    Let_knot(o, at, name,
                             [kind |-> "Knot", name |-> name, box |-> at, iterator |-> Null,
                              iterator_boxes |-> <<>>, over |-> o.out])
                Let_at(o, at) ==
                    Let_name(o, at, label(node.iterator))
                Let_o(o) ==
                    IF Failed(o.ctx) THEN [ctx |-> o.ctx, out |-> Null]
                    ELSE Let_at(o, Len(o.ctx.boxes) + 1)
            IN Let_o(annotate(node.over, ctx))
      [] node.kind = "Join" ->
            LET Let_c(o, j, c) ==
                    [ctx |-> c.ctx,
                     out |-> [kind |-> "IntJoin", joinee |-> j.out, on |-> c.out,
                              left |-> node.left, right |-> node.right, skip |-> node.skip,
                              typ |-> EMPTY_BOX, lateral |-> <<>>, over |-> o.out]]
                Let_j(o, j) ==
                    IF Failed(j.ctx) THEN [ctx |-> j.ctx, out |-> Null]
                    ELSE Let_c(o, j, annotate_scalar(node.on, j.ctx))
                Let_o(o) ==
                    IF Failed(o.ctx) THEN [ctx |-> o.ctx, out |-> Null]
                    ELSE Let_j(o, annotate(node.joinee, o.ctx))
            IN Let_o(annotate(node.over, ctx))
      [] node.kind = "Partition" ->
            LET Let_ob(o, b, ob) ==
                    [ctx |-> ob.ctx,
                     out |-> [node EXCEPT !.over = o.out, !.by = b.out, !.order_by = ob.out]]
                Let_b(o, b) ==
                    Let_ob(o, b, annotate_scalar_list(node.order_by, b.ctx))
                Let_o(o) ==
                    IF Failed(o.ctx) THEN [ctx |-> o.ctx, out |-> Null]
                    ELSE Let_b(o, annotate_scalar_list(node.by, o.ctx))
            IN Let_o(annotate(node.over, ctx))
      [] node.kind = "Where" ->
            LET Let_c(o, c) ==
                    [ctx |-> c.ctx, out |-> [node EXCEPT !.over = o.out, !.condition = c.out]]
                Let_o(o) ==
                    IF Failed(o.ctx) THEN [ctx |-> o.ctx, out |-> Null]
                    ELSE Let_c(o, annotate_scalar(node.condition, o.ctx))
            IN Let_o(annotate(node.over, ctx))
      [] node.kind = "With" ->
            LET Let_o(a, o) ==
                    IF Failed(o.ctx) THEN [ctx |-> o.ctx, out |-> Null]
                    ELSE [ctx |-> [o.ctx EXCEPT !.cte_nodes = a.ctx.cte_nodes],
                          out |-> [node EXCEPT !.over = o.out, !.args = a.out]]
                Let_c1(a, c1) ==
                    Let_o(a, annotate(node.over, c1))
                Let_more_ctes(a, more_ctes) ==
                    Let_c1(a, extend_cte_nodes(a.ctx, more_ctes))
                Let_a(a) ==
                    IF Failed(a.ctx) THEN [ctx |-> a.ctx, out |-> Null]
                    ELSE Let_more_ctes(a,
                                       [i \in 1..Len(node.label_map) |->
                                          [key |-> node.label_map[i].key,
                                           val |-> a.out[node.label_map[i].val + 1]]])
            IN Let_a(annotate_list(node.args, ctx))

(***************************************************************************)
(* The resolve pass: the type of every box, in the order of the box list.  *)
(* A KeyError or a failed assert is an exception like the diagnostics.     *)
(* The while loop of resolve_knot has no bound in the code; the model      *)
(* cuts it after MaxRounds rounds and records that as "diverged".          *)
(***************************************************************************)
box_type(ctx, node) == IF node.kind = "Box" THEN ctx.boxes[node.idx].typ ELSE EMPTY_BOX

ScalarFields(names) == [i \in 1..Len(names) |-> [key |-> names[i], val |-> UnitType.Scalar]]

RECURSIVE resolve_boxes(_, _)
RECURSIVE resolve(_, _, _)
RECURSIVE resolve_knot(_, _, _)

resolve_boxes(boxes, ctx) ==
    IF boxes = <<>> \/ Failed(ctx) THEN ctx
    ELSE LET at == Head(boxes)
             box == ctx.boxes[at]
             Let_r(handle_idx, r) ==
                 IF box.over = Null THEN resolve_boxes(Tail(boxes), ctx)
                 ELSE IF Failed(r.ctx) THEN r.ctx
                 ELSE resolve_boxes(Tail(boxes),
                                    [r.ctx EXCEPT !.boxes[at].handle = handle_idx,
                                                  !.boxes[at].typ = add_handle(r.out, handle_idx)])
             Let_handle_idx(handle_idx) ==
                 Let_r(handle_idx, resolve(box.over, at, ctx))
         IN Let_handle_idx(get_handle(ctx, box))

\* a faulty variant of resolve_knot, which narrows the type of the knot once
\* and does not resolve the boxes of the iterator again
resolve_knot_once(at, ctx, rounds) ==
    IF Failed(ctx) THEN ctx
    ELSE IF is_subset(ctx.boxes[at].typ.row, box_type(ctx, ctx.boxes[at].over.iterator).row)
    THEN [ctx EXCEPT !.boxes[at].typ = add_handle(@, ctx.boxes[at].handle)]
    ELSE [ctx EXCEPT !.boxes[at].typ =
                        add_handle(intersect(@, box_type(ctx, ctx.boxes[at].over.iterator)),
                                   ctx.boxes[at].handle)]

resolve_knot(at, ctx, rounds) ==
    LET node == ctx.boxes[at]
        knot == node.over
        Let_iterator_typ(iterator_typ) ==
            IF Failed(ctx) THEN ctx
            ELSE IF is_subset(node.typ.row, iterator_typ.row)
            THEN [ctx EXCEPT !.boxes[at].typ = add_handle(node.typ, node.handle)]
            ELSE IF rounds = 0 THEN Raise(ctx, "diverged", knot.name)
            ELSE resolve_knot(at,
                              resolve_boxes(knot.iterator_boxes,
                                            [ctx EXCEPT !.boxes[at].typ =
                                                            intersect(node.typ, iterator_typ)]),
                              rounds - 1)
    IN Let_iterator_typ(box_type(ctx, knot.iterator))

resolve(node, at, ctx) ==
    LET Let_t(t) ==
            CASE node.kind = "Append" ->
                    LET RECURSIVE fold(_, _)
                        fold(acc, i) ==
                            IF i > Len(node.args) THEN acc
                            ELSE fold(intersect(acc, box_type(ctx, node.args[i])), i + 1) IN
                    [ctx |-> ctx, out |-> fold(t, 1)]
              [] node.kind \in {"As", "Knot"} ->
                    [ctx |-> ctx,
                     out |-> BoxType(node.name,
                                     RowType(<<[key |-> node.name, val |-> t.row]>>, EmptyType),
                                     t.handle_map)]
              [] node.kind = "Define" ->
                    [ctx |-> ctx,
                     out |-> BoxType(t.name,
                                     RowType(SelectSeq(t.row.fields,
                                                       LAMBDA e : ~DHas(node.label_map, e.key))
                                                \o ScalarFields(DKeys(node.label_map)),
                                             t.row.group),
                                     t.handle_map)]
              [] node.kind = "FromNothing" -> [ctx |-> ctx, out |-> EMPTY_BOX]
              [] node.kind = "FromReference" ->
                    LET Let_ft(ft) ==
                            IF ft # Null /\ ft.k = "Row"
                            THEN [ctx |-> ctx, out |-> BoxType(node.name, ft, <<>>)]
                            ELSE [ctx |-> Raise(ctx, "invalid-table-ref", node.name), out |-> EMPTY_BOX]
                    IN Let_ft(DGet(t.row.fields, node.name, Null))
              [] node.kind = "FromTable" ->
                    [ctx |-> ctx,
                     out |-> BoxType(node.table.name,
                                     RowType(ScalarFields(node.table.columns), EmptyType), <<>>)]
              [] node.kind = "FromValues" ->
                    [ctx |-> ctx,
                     out |-> BoxType("values",
                                     RowType(ScalarFields(node.source.columns), EmptyType), <<>>)]
              [] node.kind = "Group" ->
                    [ctx |-> ctx,
                     out |-> BoxType(t.name, RowType(ScalarFields(DKeys(node.label_map)), t.row),
                                     <<>>)]
              [] node.kind \in {"IntBind", "Limit", "Order", "Where", "With"} ->
                    [ctx |-> ctx, out |-> t]
              [] node.kind = "IntIterate" ->
                    LET Let_row(c, row) ==
                            IF Failed(c) THEN [ctx |-> c, out |-> EMPTY_BOX]
                            ELSE IF row = Null
                            THEN [ctx |-> Raise(c, "KeyError", node.iterator_name), out |-> EMPTY_BOX]
                            ELSE IF row.k # "Row"
                            THEN [ctx |-> Raise(c, "AssertionError", node.iterator_name), out |-> EMPTY_BOX]
                            ELSE [ctx |-> c, out |-> BoxType(node.name, row, <<>>)]
                        Let_kt(c, kt) ==
                            Let_row(c, DGet(kt.row.fields, node.iterator_name, Null))
                        Let_c(c) ==
                            Let_kt(c, box_type(c, node.over))
                    IN Let_c(resolve_knot(node.over.idx, ctx, MaxRounds))
              [] node.kind = "IntJoin" ->
                    LET Let_ut(ut) ==
                            [ctx |-> [ctx EXCEPT !.boxes[at].over.typ = ut], out |-> ut]
                    IN Let_ut(union(t, box_type(ctx, node.joinee)))
              [] node.kind = "Partition" ->
                    [ctx |-> ctx,
                     out |-> BoxType(t.name, RowType(t.row.fields, t.row), t.handle_map)]
              [] node.kind = "Select" ->
                    [ctx |-> ctx,
                     out |-> BoxType(t.name,
                                     RowType(ScalarFields(DKeys(node.label_map)), EmptyType),
                                     <<>>)]
    IN Let_t(box_type(ctx, node.over))

resolve_toplevel(ctx) == resolve_boxes([i \in 1..Len(ctx.boxes) |-> i], ctx)

(***************************************************************************)
(* The link pass: references are gathered, validated against the type of   *)
(* the box they are handed to, and routed to the boxes below.  validate    *)
(* gives Null when the reference is valid, else the exception it raises.   *)
(***************************************************************************)
MaxLinkRounds == 6  \* rounds of the loop of link(Knot) before the model cuts it

ErrRef(kind, name) == [kind |-> kind, name |-> name]

RECURSIVE validate(_, _)
RECURSIVE validate_boxtype(_, _)
RECURSIVE validate_rowtype(_, _)
RECURSIVE validate_rowtype_lenient(_, _)

validate(t, ref) ==
    IF t.k = "Row" THEN validate_rowtype(t, ref)
    ELSE IF t.k = "Box" THEN validate_boxtype(t, ref)
    ELSE ErrRef("NotImplementedError", "")

validate_boxtype(t, ref) ==
    IF ref.kind = "HandleBound"
    THEN IF DHas(t.handle_map, ref.handle)
         THEN LET Let_ht(ht) ==
                      IF ht = UnitType.Ambiguous THEN ErrRef("ambiguous-handle", "")
                      ELSE validate(ht, ref.over)
              IN Let_ht(DGet(t.handle_map, ref.handle, EmptyType))
         ELSE ErrRef("undefined-handle", "")
    ELSE validate(t.row, ref)

\* a faulty variant of validate_rowtype: a Get of a field that holds a row
\* passes, and an Agg is accepted where the group is ambiguous
validate_rowtype_lenient(t, ref) ==
    IF ref.kind = "NameBound"
    THEN LET Let_ft(ft) ==
                 IF ft.k # "Row"
                 THEN IF ft = UnitType.Empty THEN ErrRef("undefined-name", ref.name)
                      ELSE IF ft = UnitType.Scalar THEN ErrRef("unexpected-scalar-type", ref.name)
                      ELSE ErrRef("ambiguous-name", ref.name)
                 ELSE validate_rowtype_lenient(ft, ref.over)
         IN Let_ft(DGet(t.fields, ref.name, UnitType.Empty))
    ELSE IF ref.kind = "Get"
    THEN LET Let_ft(ft) ==
                 IF ft = UnitType.Empty THEN ErrRef("undefined-name", ref.name)
                 ELSE IF ft = UnitType.Ambiguous THEN ErrRef("ambiguous-name", ref.name)
                 ELSE Null
         IN Let_ft(DGet(t.fields, ref.name, UnitType.Empty))
    ELSE IF t.group = UnitType.Empty THEN ErrRef("unexpected-agg", ref.name)
    ELSE Null

validate_rowtype(t, ref) ==
    IF ref.kind = "NameBound"
    THEN LET Let_ft(ft) ==
                 IF ft.k # "Row"
                 THEN IF ft = UnitType.Empty THEN ErrRef("undefined-name", ref.name)
                      ELSE IF ft = UnitType.Scalar THEN ErrRef("unexpected-scalar-type", ref.name)
                      ELSE IF ft = UnitType.Ambiguous THEN ErrRef("ambiguous-name", ref.name)
                      ELSE ErrRef("Exception", ref.name)
                 ELSE validate_rowtype(ft, ref.over)
         IN Let_ft(DGet(t.fields, ref.name, UnitType.Empty))
    ELSE IF ref.kind = "Get" /\ ref.over = Null
    THEN LET Let_ft(ft) ==
                 IF ft # UnitType.Scalar
                 THEN IF ft = UnitType.Empty THEN ErrRef("undefined-name", ref.name)
                      ELSE IF ft = UnitType.Ambiguous THEN ErrRef("ambiguous-name", ref.name)
                      ELSE IF ft.k = "Row" THEN ErrRef("unexpected-row-type", ref.name)
                      ELSE ErrRef("Exception", ref.name)
                 ELSE Null
         IN Let_ft(DGet(t.fields, ref.name, UnitType.Empty))
    ELSE IF ref.kind = "Agg" /\ ref.over = Null
    THEN IF t.group.k # "Row"
         THEN IF t.group = UnitType.Empty THEN ErrRef("unexpected-agg", ref.name)
              ELSE IF t.group = UnitType.Ambiguous THEN ErrRef("ambiguous-agg", ref.name)
              ELSE ErrRef("Exception", ref.name)
         ELSE Null
    ELSE ErrRef("Exception", "")

\* route: -1 when the reference comes from the left side of a Join, 1 when it
\* comes from the right side; 0 stands for the failed assert and 2 for the
\* Exception raised on an unexpected reference
RECURSIVE route(_, _, _)
route(lt, rt, ref) ==
    IF lt.k = "Box" /\ rt.k = "Box"
    THEN IF ref.kind = "HandleBound"
         THEN IF DGet(lt.handle_map, ref.handle, UnitType.Empty) = UnitType.Empty
              THEN 1 ELSE -1
         ELSE route(lt.row, rt.row, ref)
    ELSE IF lt.k = "Row" /\ rt.k = "Row"
    THEN IF ref.kind = "NameBound"
         THEN LET Let_rt_p(lt_p, rt_p) ==
                      IF lt_p = UnitType.Empty THEN 1
                      ELSE IF rt_p = UnitType.Empty THEN -1
                      ELSE IF lt_p.k = "Row" /\ rt_p.k = "Row" THEN route(lt_p, rt_p, ref.over)
                      ELSE 0
                  Let_lt_p(lt_p) ==
                      Let_rt_p(lt_p, DGet(rt.fields, ref.name, UnitType.Empty))
              IN Let_lt_p(DGet(lt.fields, ref.name, UnitType.Empty))
         ELSE IF ref.kind = "Get" THEN (IF DHas(lt.fields, ref.name) THEN -1 ELSE 1)
         ELSE IF ref.kind = "Agg" THEN (IF lt.group.k = "Row" THEN -1 ELSE 1)
         ELSE 2
    ELSE 2

\* gather: refs extended with the references under node.  A Box, an As and a
\* Sort are looked through; an IntBind is marked owned, which the model
\* records for an IntBind that is the content of a box.
RECURSIVE gather(_, _, _)
RECURSIVE gather_list(_, _, _)
gather(node, refs, ctx) ==
    CASE node.kind = "Box" ->
            LET over == ctx.boxes[node.idx].over IN
            IF over.kind = "IntBind"
            THEN LET Let_g2(g2) ==
                         [ctx |-> [g2.ctx EXCEPT !.boxes[node.idx].over.owned = TRUE],
                          refs |-> g2.refs]
                     Let_g1(g1) ==
                         Let_g2(gather_list(over.args, g1.refs, g1.ctx))
                 IN Let_g1(gather(over.over, refs, ctx))
            ELSE gather(over, refs, ctx)
      [] node.kind \in {"As", "Sort"} -> gather(node.over, refs, ctx)
      [] node.kind = "IntBind" ->
            LET Let_g1(g1) ==
                    gather_list(node.args, g1.refs, g1.ctx)
            IN Let_g1(gather(node.over, refs, ctx))
      [] node.kind = "Fun" -> gather_list(node.args, refs, ctx)
      [] node.kind \in {"Agg", "Get", "HandleBound", "NameBound"} ->
            [ctx |-> ctx, refs |-> Append(refs, node)]
      [] OTHER -> [ctx |-> ctx, refs |-> refs]
gather_list(nodes, refs, ctx) ==
    IF nodes = <<>> THEN [ctx |-> ctx, refs |-> refs]
    ELSE LET Let_g(g) ==
                 gather_list(Tail(nodes), g.refs, g.ctx)
         IN Let_g(gather(Head(nodes), refs, ctx))

\* the first exception validate raises for refs[start_at + 1 ..], or Null
RECURSIVE first_invalid(_, _, _)
first_invalid(t, refs, start_at) ==
    IF start_at >= Len(refs) THEN Null
    ELSE LET Let_e(e) ==
                 IF e # Null THEN e ELSE first_invalid(t, refs, start_at + 1)
         IN Let_e(validate(t, refs[start_at + 1]))

gather_n_validate(nodes, refs, t, ctx) ==
    IF Failed(ctx) THEN [ctx |-> ctx, refs |-> refs]
    ELSE LET Let_e(g, e) ==
                 [ctx |-> IF e = Null THEN g.ctx ELSE [g.ctx EXCEPT !.err = e], refs |-> g.refs]
             Let_g(g) ==
                 Let_e(g, first_invalid(t, g.refs, Len(refs)))
         IN Let_g(gather_list(nodes, refs, ctx))

Extend(ctx, box, refs) == [ctx EXCEPT !.boxes[box.idx].refs = @ \o refs]

\* every reference of refs wrapped in a new NameBound(over=ref, name=name)
RECURSIVE WrapAll(_, _, _)
WrapAll(refs, name, oid) ==
    IF refs = <<>> THEN <<>>
    ELSE <<NameBound(oid, Head(refs), name)>> \o WrapAll(Tail(refs), name, oid + 1)

LinkWrapped(node, name, refs, ctx) ==
    [ctx EXCEPT !.boxes[node.over.idx].refs = @ \o WrapAll(refs, name, ctx.next_oid),
                !.next_oid = @ + Len(refs)]

LinkAs(node, refs, ctx) ==
    LET box == node.over
        unexpected == \E i \in 1..Len(refs) : refs[i].kind \notin {"NameBound", "HandleBound"}
        misnamed == \E i \in 1..Len(refs) :
                       refs[i].kind = "NameBound" /\ refs[i].name # node.name
        first_bad == CHOOSE i \in 1..Len(refs) :
                       /\ \/ refs[i].kind \notin {"NameBound", "HandleBound"}
                          \/ refs[i].kind = "NameBound" /\ refs[i].name # node.name
                       /\ \A j \in 1..(i - 1) :
                             \/ refs[j].kind = "HandleBound"
                             \/ refs[j].kind = "NameBound" /\ refs[j].name = node.name IN
    IF unexpected \/ misnamed
    THEN Raise(ctx, IF refs[first_bad].kind = "NameBound" THEN "AssertionError"
                    ELSE "Exception", node.name)
    ELSE Extend(ctx, box, [i \in 1..Len(refs) |->
                             IF refs[i].kind = "NameBound" THEN refs[i].over ELSE refs[i]])

LinkDefine(node, refs, ctx) ==
    LET box == node.over
        typ == ctx.boxes[box.idx].typ
        RECURSIVE loop(_, _, _, _)
        loop(i, acc, seen, c) ==
            IF i > Len(refs) \/ Failed(c) THEN [ctx |-> c, refs |-> acc]
            ELSE LET ref == refs[i] IN
                 IF ref.kind = "Get" /\ ref.over = Null /\ DHas(node.label_map, ref.name)
                 THEN IF ref.name \in seen THEN loop(i + 1, acc, seen, c)
                      ELSE LET col == node.args[DGet(node.label_map, ref.name, 0) + 1]
                               Let_gv(gv) ==
                                   loop(i + 1, gv.refs, seen \cup {ref.name}, gv.ctx)
                           IN Let_gv(gather_n_validate(<<col>>, acc, typ, c))
                 ELSE loop(i + 1, Append(acc, ref), seen, c)
        Let_r(r) ==
            [r.ctx EXCEPT !.boxes[box.idx].refs = r.refs]
    IN Let_r(loop(1, ctx.boxes[box.idx].refs, {}, ctx))

\* the loop shared by Group and Partition over the refs handed down: the args
\* and the filter of an aggregate are gathered and validated, and any other
\* reference is forwarded by Partition (keep) and dropped by Group
AggLoop(node, refs, start, keep, ctx) ==
    LET box == node.over
        typ == ctx.boxes[box.idx].typ
        RECURSIVE loop(_, _, _)
        loop(i, acc, c) ==
            IF i > Len(refs) \/ Failed(c) THEN [ctx |-> c, refs |-> acc]
            ELSE LET ref == refs[i] IN
                 IF ref.kind = "Agg" /\ ref.over = Null
                 THEN LET Let_gf(gf) ==
                              loop(i + 1, gf.refs, gf.ctx)
                          Let_ga(ga) ==
                              Let_gf(IF ref.filter_ # Null
                                     THEN gather_n_validate(<<ref.filter_>>, ga.refs, typ, ga.ctx)
                                     ELSE ga)
                      IN Let_ga(gather_n_validate(ref.args, acc, typ, c))
                 ELSE loop(i + 1, IF keep THEN Append(acc, ref) ELSE acc, c) IN
    loop(1, start, ctx)

LinkGroup(node, refs, ctx) ==
    LET box == node.over
        Let_r(r) ==
            [r.ctx EXCEPT !.boxes[box.idx].refs = r.refs]
        Let_g(g) ==
            Let_r(AggLoop(node, refs, g.refs, FALSE, g.ctx))
    IN Let_g(gather_n_validate(node.by, ctx.boxes[box.idx].refs, ctx.boxes[box.idx].typ, ctx))

LinkPartition(node, refs, ctx) ==
    LET box == node.over
        typ == ctx.boxes[box.idx].typ
        Let_ob(ob) ==
            [ob.ctx EXCEPT !.boxes[box.idx].refs = ob.refs]
        Let_b(b) ==
            Let_ob(gather_n_validate(node.order_by, b.refs, typ, b.ctx))
        Let_r(r) ==
            Let_b(gather_n_validate(node.by, r.refs, typ, r.ctx))
    IN Let_r(AggLoop(node, refs, ctx.boxes[box.idx].refs, TRUE, ctx))

\* Order and Where: the refs handed down are forwarded, then the node's own
\* references (nodes) are gathered and validated
LinkForwardThenGather(node, nodes, refs, ctx) ==
    LET box == node.over
        Let_g(g) ==
            [g.ctx EXCEPT !.boxes[box.idx].refs = g.refs]
    IN Let_g(gather_n_validate(nodes, ctx.boxes[box.idx].refs \o refs,
                               ctx.boxes[box.idx].typ, ctx))

LinkSelect(node, refs, ctx) ==
    LET box == node.over
        Let_g(g) ==
            [g.ctx EXCEPT !.boxes[box.idx].refs = g.refs]
    IN Let_g(gather_n_validate(node.args, ctx.boxes[box.idx].refs,
                               ctx.boxes[box.idx].typ, ctx))

LinkIntBind(node, refs, ctx) ==
    LET Let_g(g) ==
            IF Failed(g.ctx) THEN g.ctx ELSE Extend(g.ctx, node.over, refs)
    IN Let_g(IF node.owned THEN [ctx |-> ctx, refs |-> <<>>]
             ELSE gather_n_validate(node.args, <<>>, EMPTY_BOX, ctx))

\* a faulty variant of ClearSkip, which leaves skip as it is
ClearSkipNever(node, rrefs) == node.skip

\* `if len(rrefs) != 0: node.skip = False`: the value of skip after the
\* routing of the requested references
ClearSkip(node, rrefs) == IF Len(rrefs) # 0 THEN FALSE ELSE node.skip

LinkIntJoin(node, at, refs, ctx) ==
    LET lbox == node.over
        rbox == node.joinee
        lt == ctx.boxes[lbox.idx].typ
        rt == ctx.boxes[rbox.idx].typ
        turn(ref) == route(lt, rt, ref)
        Let_c2(lrefs, skip, c0, gl, c1, go, refs_p, c2) ==
            IF \E i \in 1..Len(refs) : turn(refs[i]) \in {0, 2}
            THEN Raise(ctx, IF turn(refs[CHOOSE i \in 1..Len(refs) : turn(refs[i]) \in {0, 2}
                                            /\ \A j \in 1..(i - 1) : turn(refs[j]) \notin {0, 2}]) = 0
                            THEN "AssertionError" ELSE "Exception", "")
            ELSE IF skip THEN Extend(c0, lbox, lrefs)
            ELSE IF Failed(gl.ctx) THEN c1
            ELSE IF Failed(go.ctx) THEN go.ctx
            ELSE IF \E i \in 1..Len(refs_p) : turn(refs_p[i]) \in {0, 2}
            THEN Raise(go.ctx, "AssertionError", "")
            ELSE c2
        Let_refs_p(lrefs, rrefs, skip, c0, gl, c1, go, refs_p) ==
            Let_c2(lrefs, skip, c0, gl, c1, go, refs_p,
                   [go.ctx EXCEPT
                      !.boxes[lbox.idx].refs =
                         @ \o gl.refs \o SelectSeq(refs_p, LAMBDA ref : turn(ref) < 0) \o lrefs,
                      !.boxes[rbox.idx].refs =
                         @ \o SelectSeq(refs_p, LAMBDA ref : turn(ref) >= 0) \o rrefs])
        Let_go(lrefs, rrefs, skip, c0, gl, c1, go) ==
            Let_refs_p(lrefs, rrefs, skip, c0, gl, c1, go, go.refs)
        Let_c1(lrefs, rrefs, skip, c0, gl, c1) ==
            Let_go(lrefs, rrefs, skip, c0, gl, c1, gather_n_validate(<<node.on>>, <<>>, node.typ, c1))
        Let_gl(lrefs, rrefs, skip, c0, gl) ==
            Let_c1(lrefs, rrefs, skip, c0, gl, [gl.ctx EXCEPT !.boxes[at].over.lateral = gl.refs])
        Let_c0(lrefs, rrefs, skip, c0) ==
            Let_gl(lrefs, rrefs, skip, c0, gather_n_validate(<<node.joinee>>, node.lateral, lt, c0))
        Let_skip(lrefs, rrefs, skip) ==
            Let_c0(lrefs, rrefs, skip, [ctx EXCEPT !.boxes[at].over.skip = skip])
        Let_rrefs(lrefs, rrefs) ==
            Let_skip(lrefs, rrefs, ClearSkip(node, rrefs))
        Let_lrefs(lrefs) ==
            Let_rrefs(lrefs, SelectSeq(refs, LAMBDA ref : turn(ref) >= 0))
    IN Let_lrefs(SelectSeq(refs, LAMBDA ref : turn(ref) < 0))

RECURSIVE link(_, _, _, _)
RECURSIVE link_boxes(_, _)
RECURSIVE LinkKnot(_, _, _, _, _)

Reversed(seq) == [i \in 1..Len(seq) |-> seq[Len(seq) + 1 - i]]

\* one sweep of the while loop of link(Knot) over node.box.refs: the
\* references whose target was not seen yet are added to refs
RECURSIVE KnotSweep(_, _, _, _, _)
KnotSweep(node, box_refs, i, refs, seen) ==
    IF i > Len(box_refs) THEN [bad |-> FALSE, refs |-> refs, seen |-> seen]
    ELSE LET ref == box_refs[i] IN
         IF ref.kind # "NameBound" \/ ref.name # node.name
         THEN [bad |-> TRUE, refs |-> refs, seen |-> seen]
         ELSE IF ref.over \notin seen
         THEN KnotSweep(node, box_refs, i + 1, Append(refs, ref), seen \cup {ref.over})
         ELSE KnotSweep(node, box_refs, i + 1, refs, seen)

RECURSIVE ClearRefs(_, _)
ClearRefs(boxes, idxs) ==
    IF idxs = <<>> THEN boxes
    ELSE ClearRefs([boxes EXCEPT ![Head(idxs)].refs = <<>>], Tail(idxs))

\* a faulty variant of LinkKnot, which links the iterator once and does not
\* sweep the box of the knot again
LinkKnotOnce(node, refs, seen, ctx, rounds) ==
    LET Let_c3(sweep, c3) ==
            IF Failed(c3) THEN c3
            ELSE Extend(c3, node.over, [i \in 1..Len(sweep.refs) |-> sweep.refs[i].over])
        Let_c2(sweep, c2) ==
            Let_c3(sweep, link_boxes(Reversed(node.iterator_boxes), c2))
        Let_sweep(sweep) ==
            IF sweep.bad THEN Raise(ctx, "AssertionError", node.name)
            ELSE Let_c2(sweep,
                        [ctx EXCEPT !.boxes = [ClearRefs(@, node.iterator_boxes) EXCEPT
                                                  ![node.iterator.idx].refs = sweep.refs,
                                                  ![node.box].refs = sweep.refs]])
    IN Let_sweep(KnotSweep(node, ctx.boxes[node.box].refs, 1, refs, seen))

LinkKnot(node, refs, seen, ctx, rounds) ==
    LET Let_c2(sweep, repeat, c1, c2) ==
            IF Failed(ctx) THEN ctx
            ELSE IF sweep.bad THEN Raise(ctx, "AssertionError", node.name)
            ELSE IF ~repeat
            THEN Extend(c1, node.over, [i \in 1..Len(sweep.refs) |-> sweep.refs[i].over])
            ELSE IF rounds = 0 THEN Raise(ctx, "diverged", node.name)
            ELSE LinkKnot(node, sweep.refs, sweep.seen,
                          link_boxes(Reversed(node.iterator_boxes), c2), rounds - 1)
        Let_c1(sweep, repeat, c1) ==
            Let_c2(sweep, repeat, c1,
                   [c1 EXCEPT !.boxes = [ClearRefs(@, node.iterator_boxes) EXCEPT
                                            ![node.iterator.idx].refs = sweep.refs]])
        Let_repeat(sweep, repeat) ==
            Let_c1(sweep, repeat, [ctx EXCEPT !.boxes[node.box].refs = sweep.refs])
        Let_sweep(sweep) ==
            Let_repeat(sweep, Len(sweep.refs) > Len(refs))
    IN Let_sweep(KnotSweep(node, ctx.boxes[node.box].refs, 1, refs, seen))

link(node, at, refs, ctx) ==
    CASE node.kind = "Append" ->
            LET RECURSIVE fold(_, _)
                fold(c, i) ==
                    IF i > Len(node.args) THEN c
                    ELSE fold(Extend(c, node.args[i], refs), i + 1) IN
            fold(Extend(ctx, node.over, refs), 1)
      [] node.kind = "As" -> LinkAs(node, refs, ctx)
      [] node.kind = "Define" -> LinkDefine(node, refs, ctx)
      [] node.kind \in {"FromNothing", "FromTable", "FromValues"} -> ctx
      [] node.kind = "FromReference" -> LinkWrapped(node, node.name, refs, ctx)
      [] node.kind = "Group" -> LinkGroup(node, refs, ctx)
      [] node.kind \in {"Limit", "With"} -> Extend(ctx, node.over, refs)
      [] node.kind = "IntBind" -> LinkIntBind(node, refs, ctx)
      [] node.kind = "IntIterate" -> LinkWrapped(node, node.iterator_name, refs, ctx)
      [] node.kind = "IntJoin" -> LinkIntJoin(node, at, refs, ctx)
      [] node.kind = "Knot" -> LinkKnot(node, <<>>, {}, ctx, MaxLinkRounds)
      [] node.kind = "Order" -> LinkForwardThenGather(node, node.by, refs, ctx)
      [] node.kind = "Partition" -> LinkPartition(node, refs, ctx)
      [] node.kind = "Select" -> LinkSelect(node, refs, ctx)
      [] node.kind = "Where" -> LinkForwardThenGather(node, <<node.condition>>, refs, ctx)

link_boxes(boxes, ctx) ==
    IF boxes = <<>> \/ Failed(ctx) THEN ctx
    ELSE LET at == Head(boxes)
             box == ctx.boxes[at]
             refs_p == [i \in 1..Len(box.refs) |->
                          IF box.refs[i].kind = "HandleBound"
                             /\ box.refs[i].handle = box.handle
                          THEN box.refs[i].over ELSE box.refs[i]] IN
         IF box.over = Null THEN link_boxes(Tail(boxes), ctx)
         ELSE link_boxes(Tail(boxes), link(box.over, at, refs_p, ctx))

link_toplevel(ctx) ==
    LET root == Len(ctx.boxes)
        scalars == SelectSeq(ctx.boxes[root].typ.row.fields,
                             LAMBDA e : e.val = UnitType.Scalar)
        gets == [i \in 1..Len(scalars) |-> NewGet(ctx.next_oid + i - 1, scalars[i].key)] IN
    link_boxes(Reversed([i \in 1..root |-> i]),
               [ctx EXCEPT !.boxes[root].refs = @ \o gets,
                           !.next_oid = @ + Len(scalars)])

(***************************************************************************)
(* The dialect.  render takes it from the catalog, dialect_default() when  *)
(* no catalog is given.                                                    *)
(***************************************************************************)
NAMED == 1
NUMBERED == 2
POSITIONAL == 3
VarStyle == {NAMED, NUMBERED, POSITIONAL}
REGULAR == 1
FETCH_FIRST_KIND == 2
LimitStyle == {REGULAR, FETCH_FIRST_KIND}

SQLDialect(name, var_style, var_prefix) ==
    [name |-> name, var_style |-> var_style, var_prefix |-> var_prefix,
     id_quotes |-> <<"\"", "\"">>, has_bool_literals |-> TRUE, limit_style |-> REGULAR,
     has_recursive_annotation |-> TRUE, has_as_columns |-> TRUE,
     has_datetime_types |-> TRUE, values_row_constructor |-> <<>>,
     values_column_prefix |-> <<"column">>, values_column_index |-> 1]
dialect_postgres == SQLDialect("postgresql", NUMBERED, "$")
dialect_default == dialect_postgres

(***************************************************************************)
(* The SQLClause objects.  Two clauses are equal when their attributes     *)
(* are (SQLClause._key), which is the equality of the records.  None is    *)
(* Null, and the list of column names of an AS is wrapped in a record.     *)
(***************************************************************************)
Columns(names) == [names |-> names]
IsA(c, classes) == c # Null /\ c.clause \in classes
\* isinstance(x, cls) for a node class asked of a clause or a node
IsNode(x, kind) == "kind" \in DOMAIN x /\ x.kind = kind

AGG(name, args, distinct, filter_, over) ==
    [clause |-> "AGG", name |-> name, args |-> args, distinct |-> distinct,
     filter_ |-> filter_, over |-> over]
AS(name, columns, over) == [clause |-> "AS", name |-> name, columns |-> columns, over |-> over]
CASE_(args) == [clause |-> "CASE", args |-> args]
FROM(over) == [clause |-> "FROM", over |-> over]
FUN(name, args) == [clause |-> "FUN", name |-> name, args |-> args]
GROUP(by, over) == [clause |-> "GROUP", by |-> by, over |-> over]
HAVING(condition, over) == [clause |-> "HAVING", condition |-> condition, over |-> over]
ID(name, over) == [clause |-> "ID", name |-> name, over |-> over]
JOIN(joinee, on, left, right, lateral, over) ==
    [clause |-> "JOIN", joinee |-> joinee, on |-> on, left |-> left, right |-> right,
     lateral |-> lateral, over |-> over]
KW(name, over) == [clause |-> "KW", name |-> name, over |-> over]
LIMIT(limit, offset, over) ==
    [clause |-> "LIMIT", limit |-> limit, offset |-> offset, with_ties |-> FALSE,
     over |-> over]
LIT(val) == [clause |-> "LIT", val |-> val]
NOTE(text, over) == [clause |-> "NOTE", text |-> text, postfix |-> FALSE, over |-> over]
OP(name, args) == [clause |-> "OP", name |-> name, args |-> args]
ORDER(by, over) == [clause |-> "ORDER", by |-> by, over |-> over]
PARTITION(by, order_by, over) ==
    [clause |-> "PARTITION", by |-> by, order_by |-> order_by, frame |-> Null, over |-> over]
SELECT(args, distinct, over) ==
    [clause |-> "SELECT", args |-> args, distinct |-> distinct, top |-> Null, over |-> over]
SORT(value, nulls, over) == [clause |-> "SORT", value |-> value, nulls |-> nulls, over |-> over]
UNION_(args, all_, over) == [clause |-> "UNION", args |-> args, all_ |-> all_, over |-> over]
VALUES(rows) == [clause |-> "VALUES", rows |-> rows]
VAR(name) == [clause |-> "VAR", name |-> name]
WHERE(condition, over) == [clause |-> "WHERE", condition |-> condition, over |-> over]
WINDOW(args, over) == [clause |-> "WINDOW", args |-> args, over |-> over]
WITH_(args, recursive, over) ==
    [clause |-> "WITH", args |-> args, recursive |-> recursive, over |-> over]

\* the values of a literal: None, True and False, an int, a str
NoneVal == [t |-> "none"]
BoolVal(b) == [t |-> "bool", b |-> b]
IntVal(i) == [t |-> "int", i |-> i]
StrVal(s) == [t |-> "str", s |-> s]
\* val == True in Python: True itself, and the int 1
EqualsTrue(val) == (val.t = "bool" /\ val.b) \/ (val.t = "int" /\ val.i = 1)

(***************************************************************************)
(* The translate pass.  An Assemblage is a partially constructed query:    *)
(* clause, cols (alias -> clause) and repl (referenced node -> alias).     *)
(* The dicts keyed by nodes are keyed by the identity of the node, which   *)
(* the oid of a reference gives.  A KeyError or a failed assert is an      *)
(* exception, recorded in ctx.err like the diagnostics of the other        *)
(* passes.  NoAlias is the alias None.                                     *)
(***************************************************************************)
NoAlias == ""
Assemblage(clause, cols, repl) == [clause |-> clause, cols |-> cols, repl |-> repl]
EmptyAssemblage == Assemblage(Null, <<>>, <<>>)
KeyError(ctx) == Raise(ctx, "KeyError", "")
AssertionError(ctx) == Raise(ctx, "AssertionError", "")

cols_to_select_args(cols) ==
    LET Let_args(args) ==
            IF Len(args) = 0 THEN <<LIT(NoneVal)>> ELSE args
    IN Let_args([i \in 1..Len(cols) |->
                   IF IsA(cols[i].val, {"ID"}) /\ cols[i].val.name = cols[i].key
                   THEN cols[i].val
                   ELSE AS(cols[i].key, Null, cols[i].val)])

get_complete_select(asmb) ==
    IF IsA(asmb.clause, {"SELECT", "UNION"}) THEN asmb.clause
    ELSE SELECT(cols_to_select_args(asmb.cols), FALSE, asmb.clause)

get_make_subs(asmb, alias, ctx) ==
    IF Failed(ctx) THEN [ctx |-> ctx, out |-> <<>>]
    ELSE IF alias = NoAlias
    THEN IF \E i \in 1..Len(asmb.repl) : ~DHas(asmb.cols, asmb.repl[i].val)
         THEN [ctx |-> KeyError(ctx), out |-> <<>>]
         ELSE [ctx |-> ctx,
               out |-> [i \in 1..Len(asmb.repl) |->
                          [key |-> asmb.repl[i].key,
                           val |-> DGet(asmb.cols, asmb.repl[i].val, Null)]]]
    ELSE [ctx |-> ctx,
          out |-> [i \in 1..Len(asmb.repl) |->
                     [key |-> asmb.repl[i].key,
                      val |-> ID(asmb.repl[i].val, ID(alias, Null))]]]

RECURSIVE unwrap_repl_from(_, _, _)
unwrap_repl_from(repl, i, repl_p) ==
    IF i > Len(repl) THEN repl_p
    ELSE unwrap_repl_from(repl, i + 1, DPut(repl_p, repl[i].key.over, repl[i].val))

unwrap_repl(asmb, ctx) ==
    IF Failed(ctx) THEN [ctx |-> ctx, out |-> EmptyAssemblage]
    ELSE IF \E i \in 1..Len(asmb.repl) : asmb.repl[i].key.kind # "NameBound"
    THEN [ctx |-> AssertionError(ctx), out |-> EmptyAssemblage]
    ELSE [ctx |-> ctx,
          out |-> Assemblage(asmb.clause, asmb.cols, unwrap_repl_from(asmb.repl, 1, <<>>))]

\* translates is a list of pairs (ref, clause)
Pair(ref, clause) == [ref |-> ref, clause |-> clause]

RECURSIVE translates_to_repl_n_cols_from(_, _, _, _, _, _)
translates_to_repl_n_cols_from(translates, i, repl, cols, renames, counter) ==
    IF i > Len(translates) THEN [repl |-> repl, cols |-> cols]
    ELSE LET ref == translates[i].ref
             clause == translates[i].clause
             Let_name_p(name, k, key, name_p) ==
                 IF k > 1 /\ DHas(renames, key)
                 THEN translates_to_repl_n_cols_from(
                          translates, i + 1, DPut(repl, ref, DGet(renames, key, "")), cols,
                          renames, DPut(counter, name, k))
                 ELSE translates_to_repl_n_cols_from(
                          translates, i + 1, DPut(repl, ref, name_p), DPut(cols, name_p, clause),
                          DPut(renames, key, name_p), DPut(counter, name, k))
             Let_key(name, k, key) ==
                 Let_name_p(name, k, key, IF k > 1 THEN name \o "_" \o ToString(k) ELSE name)
             Let_k(name, k) ==
                 Let_key(name, k, [name |-> name, clause |-> clause])
             Let_name(name) ==
                 Let_k(name, DGet(counter, name, 0) + 1)
         IN Let_name(label(ref))

translates_to_repl_n_cols(translates) ==
    translates_to_repl_n_cols_from(translates, 1, <<>>, <<>>, <<>>, <<>>)

RECURSIVE refs_to_repl_n_cols_from(_, _, _, _, _)
refs_to_repl_n_cols_from(refs, i, repl, cols, counter) ==
    IF i > Len(refs) THEN [repl |-> repl, cols |-> cols]
    ELSE LET Let_name_p(name, k, name_p) ==
                 refs_to_repl_n_cols_from(refs, i + 1, DPut(repl, refs[i], name_p),
                                          DPut(cols, name_p, ID(name_p, Null)),
                                          DPut(counter, name, k))
             Let_k(name, k) ==
                 Let_name_p(name, k, IF k > 1 THEN name \o "_" \o ToString(k) ELSE name)
             Let_name(name) ==
                 Let_k(name, DGet(counter, name, 0) + 1)
         IN Let_name(label(refs[i]))

refs_to_repl_n_cols(refs) == refs_to_repl_n_cols_from(refs, 1, <<>>, <<>>, <<>>)

CTEAssemblage(asmb, name, materialized) ==
    [asmb |-> asmb, name |-> name, schema |-> <<>>, materialized |-> materialized,
     external |-> FALSE]

(***************************************************************************)
(* The TranslateContext and allocate_alias.  A Symbol is its string, and   *)
(* f"{alias}_{n}" is the concatenation of the strings.  The context keeps  *)
(* the box list of the AnnotateContext, through which a Box is read.       *)
(* allocate_alias_node is the call with a node, which has to be a Box.     *)
(***************************************************************************)
TranslateContext(ctx) ==
    [dialect |-> dialect_default, aliases |-> <<>>, cte_map |-> <<>>,
     recursive |-> FALSE, vars_ |-> <<>>, subs |-> <<>>, boxes |-> ctx.boxes,
     err |-> Null]

\* a faulty variant of allocate_alias: the count is not written back
allocate_alias_stale(ctx, alias) ==
    [ctx |-> ctx, out |-> alias \o "_" \o ToString(DGet(ctx.aliases, alias, 0) + 1)]

allocate_alias(ctx, alias) ==
    LET Let_n(n) ==
            [ctx |-> [ctx EXCEPT !.aliases = DPut(@, alias, n)],
             out |-> alias \o "_" \o ToString(n)]
    IN Let_n(DGet(ctx.aliases, alias, 0) + 1)

allocate_alias_node(ctx, node) ==
    IF Failed(ctx) THEN [ctx |-> ctx, out |-> NoAlias]
    ELSE IF node.kind # "Box" THEN [ctx |-> AssertionError(ctx), out |-> NoAlias]
    ELSE allocate_alias(ctx, box_type(ctx, node).name)

\* a faulty variant of Restore, a block without try/finally: the values from
\* before the block come back only when the block returned
RestoreOnReturn(after, before) ==
    IF Failed(after) THEN after
    ELSE [after EXCEPT !.vars_ = before.vars_, !.subs = before.subs]

\* the values of vars_ and subs that a "with substitute_vars_n_subs" block
\* leaves behind: those from before the block, also when the block raised
Restore(after, before) == [after EXCEPT !.vars_ = before.vars_, !.subs = before.subs]

(***************************************************************************)
(* Translating scalar nodes.  str.upper() and str.isalpha() are given for  *)
(* the names that occur in the queries.                                    *)
(***************************************************************************)
Upper(s) ==
    CASE s = "count" -> "COUNT"
      [] s = "row_number" -> "ROW_NUMBER"
      [] s = "max" -> "MAX"
      [] s = "upper" -> "UPPER"
      [] s = "and" -> "AND"
      [] s = "or" -> "OR"
      [] s = "not" -> "NOT"
      [] s = "in" -> "IN"
      [] s = "is null" -> "IS NULL"
      [] OTHER -> s
IsAlpha(s) == s \in {"COUNT", "MAX", "UPPER", "AND", "OR", "NOT", "IN"}
FUNC_REPLACE(fn) == IF fn = "==" THEN "=" ELSE IF fn = "!=" THEN "<>" ELSE fn

\* curr.rebase(pre): pre is put under the innermost over of curr
RECURSIVE Rebase(_, _)
Rebase(curr, pre) ==
    IF curr.over = Null THEN [curr EXCEPT !.over = pre]
    ELSE [curr EXCEPT !.over = Rebase(@, pre)]

RECURSIVE translate(_, _)
RECURSIVE translate_list(_, _)
RECURSIVE translate_node(_, _)
RECURSIVE translate_fun(_, _)
RECURSIVE bind_vars(_, _, _, _)
RECURSIVE assemble(_, _, _)
RECURSIVE assemble_box(_, _)

translate(node, ctx) ==
    IF Failed(ctx) \/ node = Null THEN [ctx |-> ctx, out |-> Null]
    ELSE IF DHas(ctx.subs, node) THEN [ctx |-> ctx, out |-> DGet(ctx.subs, node, Null)]
    ELSE translate_node(node, ctx)

translate_list(nodes, ctx) ==
    IF nodes = <<>> THEN [ctx |-> ctx, out |-> <<>>]
    ELSE LET Let_ts(t, ts) ==
                 [ctx |-> ts.ctx, out |-> <<t.out>> \o ts.out]
             Let_t(t) ==
                 Let_ts(t, translate_list(Tail(nodes), t.ctx))
         IN Let_t(translate(Head(nodes), ctx))

\* vars_p[name] = translate(node.args[i], ctx) for the entries of label_map
bind_vars(node, i, vars_p, ctx) ==
    IF i > Len(node.label_map) \/ Failed(ctx) THEN [ctx |-> ctx, out |-> vars_p]
    ELSE LET Let_t(t) ==
                 bind_vars(node, i + 1, DPut(vars_p, node.label_map[i].key, t.out), t.ctx)
         IN Let_t(translate(node.args[node.label_map[i].val + 1], ctx))

translate_fun(node, ctx) ==
    LET Let_default(fn, a, args, n, default) ==
            LET R(out) == [ctx |-> a.ctx, out |-> out] IN
            IF fn \in {"IN", "NOT IN"} /\ Len(node.args) <= 1
            THEN [ctx |-> ctx, out |-> LIT(BoolVal(fn # "IN"))]
            ELSE IF fn \in {"CURRENT_DATE", "CURRENT_TIMESTAMP"} /\ Len(node.args) = 0
            THEN [ctx |-> ctx, out |-> OP(fn, <<>>)]
            ELSE IF Failed(a.ctx) THEN [ctx |-> a.ctx, out |-> Null]
            ELSE IF fn \in {"NOT", "LIKE", "EXISTS", "=", "==", "!="}
            THEN R(OP(FUNC_REPLACE(fn), args))
            ELSE IF fn \in {"AND", "OR"}
            THEN IF n = 0 THEN R(LIT(BoolVal(default)))
                 ELSE IF n = 1 THEN R(args[1])
                 ELSE IF n = 2 /\ IsNode(args[1], "Lit") /\ args[1].val = BoolVal(default)
                 THEN R(args[2])
                 ELSE IF IsA(args[1], {"OP"}) /\ args[1].name = fn
                 THEN R(OP(args[1].name, args[1].args \o Tail(args)))
                 ELSE R(OP(fn, args))
            ELSE IF fn \in {"IN", "NOT IN"}
            THEN IF n = 2 /\ IsA(args[2], {"SELECT", "UNION"}) THEN R(OP(fn, <<args[1], args[2]>>))
                 ELSE R(OP(fn, <<args[1], FUN("_", Tail(args))>>))
            ELSE IF fn \in {"IS NULL", "IS NOT NULL"}
            THEN R(OP(IF fn = "IS NULL" THEN "IS" ELSE "IS NOT", Append(args, LIT(NoneVal))))
            ELSE IF fn = "CASE" THEN R(CASE_(args))
            ELSE IF fn = "CAST"
            THEN IF n = 2 /\ IsA(args[2], {"LIT"}) /\ args[2].val.t = "str"
                 THEN R(FUN("CAST", <<args[1], KW("AS", OP(args[2].val.s, <<>>))>>))
                 ELSE R(FUN("CAST", args))
            ELSE IF fn = "EXTRACT"
            THEN IF n = 2 /\ IsA(args[1], {"LIT"}) /\ args[1].val.t = "str"
                 THEN R(FUN("EXTRACT", <<OP(args[1].val.s, <<>>), KW("FROM", args[2])>>))
                 ELSE R(FUN("EXTRACT", args))
            ELSE IF fn \in {"BETWEEN", "NOT BETWEEN"} /\ n = 3
            THEN R(OP(fn, <<args[1], args[2], KW("AND", args[3])>>))
            ELSE IF IsAlpha(fn) THEN R(FUN(fn, args))
            ELSE R(OP(fn, args))
        Let_n(fn, a, args, n) ==
            Let_default(fn, a, args, n, fn = "AND")
        Let_args(fn, a, args) ==
            Let_n(fn, a, args, Len(args))
        Let_a(fn, a) ==
            Let_args(fn, a, a.out)
        Let_fn(fn) ==
            Let_a(fn, translate_list(node.args, ctx))
    IN Let_fn(Upper(node.name))

translate_node(node, ctx) ==
    CASE node.kind = "Agg" ->
            LET Let_f(a, f) ==
                    [ctx |-> f.ctx, out |-> AGG(Upper(node.name), a.out, node.distinct, f.out, Null)]
                Let_a(a) ==
                    Let_f(a, translate(node.filter_, a.ctx))
            IN Let_a(IF Upper(node.name) = "COUNT" /\ Len(node.args) = 0
                     THEN [ctx |-> ctx, out |-> <<OP("*", <<>>)>>]
                     ELSE translate_list(node.args, ctx))
      [] node.kind = "As" -> translate(node.over, ctx)
      [] node.kind = "IntBind" ->
            LET Let_t(v, t) ==
                    IF Failed(v.ctx) THEN [ctx |-> v.ctx, out |-> Null]
                    ELSE [ctx |-> Restore(t.ctx, v.ctx), out |-> t.out]
                Let_v(v) ==
                    Let_t(v, translate(node.over, [v.ctx EXCEPT !.vars_ = v.out]))
            IN Let_v(bind_vars(node, 1, ctx.vars_, ctx))
      [] node.kind = "Box" ->
            LET Let_base(base) ==
                    IF Failed(base.ctx) THEN [ctx |-> base.ctx, out |-> Null]
                    ELSE [ctx |-> base.ctx, out |-> get_complete_select(base.out)]
            IN Let_base(assemble_box(node, ctx))
      [] node.kind = "Fun" -> translate_fun(node, ctx)
      [] node.kind = "Lit" -> [ctx |-> ctx, out |-> LIT(node.val)]
      [] node.kind = "Sort" ->
            LET Let_o(o) ==
                    [ctx |-> o.ctx, out |-> SORT(node.value, node.nulls, o.out)]
            IN Let_o(translate(node.over, ctx))
      [] node.kind = "Var" ->
            [ctx |-> ctx, out |-> DGet(ctx.vars_, node.name, VAR(node.name))]
      [] OTHER -> [ctx |-> Raise(ctx, "NotImplementedError", ""), out |-> Null]

(***************************************************************************)
(* Translating subquery nodes.  assemble_box is assemble(node: Box, ctx),  *)
(* assemble the dispatch over the node under the box.  Every result is     *)
(* [ctx, out], out being the Assemblage.                                   *)
(***************************************************************************)
Raised(ctx) == [ctx |-> ctx, out |-> EmptyAssemblage]

\* the dict with vals[i] stored under keys[i], in the order of the keys
RECURSIVE DZip(_, _, _)
DZip(keys, vals, d) ==
    IF keys = <<>> THEN d
    ELSE DZip(Tail(keys), Tail(vals), DPut(d, Head(keys), Head(vals)))

\* [(ref, subs[ref]) for ref in refs]
from_subs(refs, subs, ctx) ==
    IF Failed(ctx) THEN [ctx |-> ctx, out |-> <<>>]
    ELSE IF \E i \in 1..Len(refs) : ~DHas(subs, refs[i])
    THEN [ctx |-> KeyError(ctx), out |-> <<>>]
    ELSE [ctx |-> ctx,
          out |-> [i \in 1..Len(refs) |-> Pair(refs[i], DGet(subs, refs[i], Null))]]

\* return Assemblage(clause, cols=cols, repl=repl) for the repl and cols of translates
Assembled(clause, translates, ctx) ==
    IF Failed(ctx) THEN Raised(ctx)
    ELSE LET Let_rc(rc) ==
                 [ctx |-> ctx, out |-> Assemblage(clause, rc.cols, rc.repl)]
         IN Let_rc(translates_to_repl_n_cols(translates))

\* the base is extended in place (inline), or is completed into a subquery
\* under a new alias: the alias and the clause to build on
Subquery(base, over, inline, ctx) ==
    IF Failed(ctx) THEN [ctx |-> ctx, alias |-> NoAlias, tail |-> Null]
    ELSE IF inline THEN [ctx |-> ctx, alias |-> NoAlias, tail |-> base.clause]
    ELSE LET Let_a(a) ==
                 [ctx |-> a.ctx, alias |-> a.out,
                  tail |-> FROM(AS(a.out, Null, get_complete_select(base)))]
         IN Let_a(allocate_alias_node(ctx, over))

aligned_columns(refs, repl, args) ==
    /\ Len(refs) = Len(args)
    /\ \A i \in 1..Len(refs) :
          IsA(args[i], {"ID", "AS"}) /\ args[i].name = DGet(repl, refs[i], NoAlias)

\* one branch of the UNION of an Append or a Knot
union_branch(arg, asmb, urefs, repl, ctx) ==
    IF Failed(ctx) THEN [ctx |-> ctx, out |-> Null]
    ELSE IF IsA(asmb.clause, {"SELECT"}) /\ aligned_columns(urefs, repl, asmb.clause.args)
    THEN [ctx |-> ctx, out |-> asmb.clause]
    ELSE LET Let_cols(q, tr, cols) ==
                 IF Failed(tr.ctx) THEN [ctx |-> tr.ctx, out |-> Null]
                 ELSE [ctx |-> tr.ctx, out |-> SELECT(cols_to_select_args(cols), FALSE, q.tail)]
             Let_tr(q, tr) ==
                 Let_cols(q, tr,
                          DZip([i \in 1..Len(urefs) |-> DGet(repl, urefs[i], NoAlias)],
                               [i \in 1..Len(urefs) |-> tr.out[i].clause], <<>>))
             Let_subs(q, subs) ==
                 Let_tr(q, from_subs(urefs, subs.out, subs.ctx))
             Let_q(q) ==
                 Let_subs(q, get_make_subs(asmb, q.alias, q.ctx))
         IN Let_q(Subquery(asmb, arg, ~IsA(asmb.clause, {"SELECT", "UNION"}), ctx))

RECURSIVE assemble_boxes(_, _)
assemble_boxes(nodes, ctx) ==
    IF nodes = <<>> THEN [ctx |-> ctx, out |-> <<>>]
    ELSE LET Let_rest(a, rest) ==
                 [ctx |-> rest.ctx, out |-> <<a.out>> \o rest.out]
             Let_a(a) ==
                 Let_rest(a, assemble_boxes(Tail(nodes), a.ctx))
         IN Let_a(assemble_box(Head(nodes), ctx))

assemble_box(node, ctx) ==
    IF Failed(ctx) THEN Raised(ctx)
    ELSE LET box == ctx.boxes[node.idx]
             refs_p == [i \in 1..Len(box.refs) |->
                          IF box.refs[i].kind = "HandleBound"
                             /\ box.refs[i].handle = box.handle
                          THEN box.refs[i].over ELSE box.refs[i]]
             Let_base(base) ==
                 IF Failed(base.ctx) THEN Raised(base.ctx)
                 ELSE IF \E i \in 1..Len(refs_p) : ~DHas(base.out.repl, refs_p[i])
                 THEN Raised(KeyError(base.ctx))
                 ELSE [ctx |-> base.ctx,
                       out |-> Assemblage(
                                  base.out.clause, base.out.cols,
                                  DZip(box.refs,
                                       [i \in 1..Len(refs_p) |-> DGet(base.out.repl, refs_p[i], NoAlias)],
                                       <<>>))]
         IN Let_base(assemble(box.over, refs_p, ctx))

assemble_none(refs, ctx) ==
    IF Len(refs) # 0 THEN Raised(AssertionError(ctx))
    ELSE [ctx |-> ctx, out |-> EmptyAssemblage]

\* the loop of assemble(Append) over refs: dups maps a ref to the earlier ref
\* that has the same alias in every branch
RECURSIVE append_dups(_, _, _, _, _)
append_dups(refs, i, branches, dups, seen) ==
    IF i > Len(refs) THEN [raised |-> FALSE, dups |-> dups]
    ELSE LET ref == refs[i]
             base == branches[1]
             Let_other_ref(name, other_ref) ==
                 IF ~DHas(base.repl, ref) THEN [raised |-> TRUE, dups |-> dups]
                 ELSE IF ~DHas(seen, name)
                 THEN append_dups(refs, i + 1, branches, dups, DPut(seen, name, ref))
                 ELSE IF \E b \in 1..Len(branches) :
                            (~DHas(branches[b].repl, ref) \/ ~DHas(branches[b].repl, other_ref)) /\
                            \A c \in 1..(b - 1) :
                               DGet(branches[c].repl, ref, NoAlias)
                                  = DGet(branches[c].repl, other_ref, NoAlias)
                 THEN [raised |-> TRUE, dups |-> dups]
                 ELSE IF \A b \in 1..Len(branches) :
                            DGet(branches[b].repl, ref, NoAlias)
                               = DGet(branches[b].repl, other_ref, NoAlias)
                 THEN append_dups(refs, i + 1, branches, DPut(dups, ref, other_ref), seen)
                 ELSE append_dups(refs, i + 1, branches, dups, seen)
             Let_name(name) ==
                 Let_other_ref(name, DGet(seen, name, Null))
         IN Let_name(DGet(base.repl, ref, NoAlias))

RECURSIVE union_branches(_, _, _, _, _, _)
union_branches(args, asmbs, i, urefs, repl, ctx) ==
    IF i > Len(args) \/ Failed(ctx) THEN [ctx |-> ctx, out |-> <<>>]
    ELSE LET Let_cs(c, cs) ==
                 [ctx |-> cs.ctx, out |-> <<c.out>> \o cs.out]
             Let_c(c) ==
                 Let_cs(c, union_branches(args, asmbs, i + 1, urefs, repl, c.ctx))
         IN Let_c(union_branch(args[i], asmbs[i], urefs, repl, ctx))

assemble_append(node, refs, ctx) ==
    LET Let_cs(rest, d, rc, repl, cs) ==
            IF d.raised THEN Raised(KeyError(rest.ctx))
            ELSE IF Failed(cs.ctx) THEN Raised(cs.ctx)
            ELSE [ctx |-> cs.ctx,
                  out |-> Assemblage(UNION_(Tail(cs.out), TRUE, cs.out[1]), rc.cols, repl)]
        Let_repl(rest, asmbs, d, urefs, rc, repl) ==
            Let_cs(rest, d, rc, repl,
                   union_branches(<<node.over>> \o node.args, asmbs, 1, urefs, repl, rest.ctx))
        Let_rc(rest, asmbs, d, urefs, rc) ==
            Let_repl(rest, asmbs, d, urefs, rc,
                     DZip(DKeys(d.dups),
                          [i \in 1..Len(d.dups) |-> DGet(rc.repl, d.dups[i].val, NoAlias)],
                          rc.repl))
        Let_urefs(rest, asmbs, d, urefs) ==
            Let_rc(rest, asmbs, d, urefs, refs_to_repl_n_cols(urefs))
        Let_d(rest, asmbs, d) ==
            Let_urefs(rest, asmbs, d, SelectSeq(refs, LAMBDA ref : ~DHas(d.dups, ref)))
        Let_asmbs(rest, asmbs) ==
            Let_d(rest, asmbs, append_dups(refs, 1, asmbs, <<>>, <<>>))
        Let_rest(base, rest) ==
            IF Failed(rest.ctx) THEN Raised(rest.ctx)
            ELSE Let_asmbs(rest, <<base.out>> \o rest.out)
        Let_base(base) ==
            IF Failed(base.ctx) THEN Raised(base.ctx)
            ELSE Let_rest(base, assemble_boxes(node.args, base.ctx))
    IN Let_base(assemble_box(node.over, ctx))

assemble_as(node, refs, ctx) ==
    LET Let_keys(base, keys) ==
            IF Failed(base.ctx) THEN Raised(base.ctx)
            ELSE IF \E i \in 1..Len(keys) : ~DHas(base.out.repl, keys[i])
            THEN Raised(KeyError(base.ctx))
            ELSE [ctx |-> base.ctx,
                  out |-> Assemblage(
                             base.out.clause, base.out.cols,
                             DZip(refs, [i \in 1..Len(keys) |-> DGet(base.out.repl, keys[i], NoAlias)],
                                  <<>>))]
        Let_base(base) ==
            Let_keys(base,
                     [i \in 1..Len(refs) |->
                        IF refs[i].kind = "NameBound" THEN refs[i].over ELSE refs[i]])
    IN Let_base(assemble_box(node.over, ctx))

\* the loop of assemble(Define) over refs; tr_cache holds the columns
\* translated so far
RECURSIVE define_translates(_, _, _, _, _, _, _)
define_translates(node, refs, i, subs, tr_cache, translates, ctx) ==
    IF i > Len(refs) \/ Failed(ctx) THEN [ctx |-> ctx, out |-> translates]
    ELSE LET ref == refs[i] IN
         IF ref.kind = "Get" /\ ref.over = Null /\ DHas(node.label_map, ref.name)
         THEN LET Let_c1(col, c1) ==
                      define_translates(node, refs, i + 1, subs, DPut(tr_cache, ref.name, col),
                                        Append(translates, Pair(ref, col)), c1)
                  Let_col(t, cached, col) ==
                      Let_c1(col, IF cached THEN ctx ELSE Restore(t.ctx, ctx))
                  Let_cached(t, cached) ==
                      Let_col(t, cached, IF cached THEN DGet(tr_cache, ref.name, Null) ELSE t.out)
                  Let_t(t) ==
                      Let_cached(t, DHas(tr_cache, ref.name))
              IN Let_t(translate(node.args[DGet(node.label_map, ref.name, 0) + 1],
                                 [ctx EXCEPT !.subs = subs]))
         ELSE IF ~DHas(subs, ref) THEN [ctx |-> KeyError(ctx), out |-> translates]
         ELSE define_translates(node, refs, i + 1, subs, tr_cache,
                                Append(translates, Pair(ref, DGet(subs, ref, Null))), ctx)

assemble_define(node, refs, ctx) ==
    LET Let_tr(base, q, tr) ==
            IF ~\E i \in 1..Len(refs) :
                        refs[i].kind = "Get" /\ DHas(node.label_map, refs[i].name)
            THEN base
            ELSE Assembled(q.tail, tr.out, tr.ctx)
        Let_subs(base, q, subs) ==
            Let_tr(base, q,
                   define_translates(node, refs, 1, subs.out, <<>>, <<>>, subs.ctx))
        Let_q(base, q) ==
            Let_subs(base, q, get_make_subs(base.out, q.alias, q.ctx))
        Let_base(base) ==
            IF Failed(base.ctx) THEN Raised(base.ctx)
            ELSE Let_q(base,
                       Subquery(base.out, node.over,
                                ~IsA(base.out.clause, {"SELECT", "UNION"}), base.ctx))
    IN Let_base(assemble_box(node.over, ctx))

assemble_from_reference(node, refs, ctx) ==
    LET Let_tr(asmb, clause, tr) ==
            Assembled(clause, tr.out, tr.ctx)
        Let_subs(asmb, clause, subs) ==
            Let_tr(asmb, clause, from_subs(refs, subs.out, subs.ctx))
        Let_clause(asmb, a, clause) ==
            Let_subs(asmb, clause, get_make_subs(asmb.out, a.out, a.ctx))
        Let_schema(cte_asmb, asmb, a, schema) ==
            Let_clause(asmb, a, FROM(AS(a.out, Null, ID(cte_asmb.name, schema))))
        Let_a(cte_asmb, asmb, a) ==
            Let_schema(cte_asmb, asmb, a,
                       IF cte_asmb.schema = <<>> THEN Null ELSE ID(cte_asmb.schema[1], Null))
        Let_asmb(cte_asmb, asmb) ==
            IF Failed(asmb.ctx) THEN Raised(asmb.ctx)
            ELSE Let_a(cte_asmb, asmb, allocate_alias(asmb.ctx, node.name))
        Let_cte_asmb(cte_asmb) ==
            Let_asmb(cte_asmb, unwrap_repl(cte_asmb.asmb, ctx))
    IN IF ~DHas(ctx.cte_map, node.over) THEN Raised(KeyError(ctx))
       ELSE Let_cte_asmb(DGet(ctx.cte_map, node.over, Null))

\* the columns of a table that the refs name, as ID(col, over=ID(alias))
seen_columns(columns, seen, clause_of(_)) ==
    LET named == SelectSeq(columns, LAMBDA col : col \in seen) IN
    [i \in 1..Len(named) |-> [key |-> named[i], val |-> clause_of(named[i])]]

\* repl[ref] = ref.name for the refs that are a Get without over
repl_by_name(refs) ==
    LET gets == SelectSeq(refs, LAMBDA ref : ref.kind = "Get" /\ ref.over = Null) IN
    DZip(gets, [i \in 1..Len(gets) |-> gets[i].name], <<>>)

assemble_from_table(node, refs, ctx) ==
    LET seen == {refs[i].name : i \in 1..Len(refs)}
        Let_clause(a, clause) ==
            LET col_id(col) == ID(col, ID(a.out, Null)) IN
            IF \E i \in 1..Len(refs) :
                  ~(refs[i].kind = "Get" /\ refs[i].over = Null
                    /\ refs[i].name \in SeqToSet(node.table.columns))
            THEN Raised(AssertionError(ctx))
            ELSE [ctx |-> a.ctx,
                  out |-> Assemblage(clause, seen_columns(node.table.columns, seen, col_id),
                                     repl_by_name(refs))]
        Let_schema(a, schema) ==
            Let_clause(a, FROM(AS(a.out, Null, ID(node.table.name, schema))))
        Let_a(a) ==
            Let_schema(a,
                       IF node.table.schema = <<>> THEN Null ELSE ID(node.table.schema[1], Null))
    IN Let_a(allocate_alias(ctx, node.table.name))

assemble_from_values(node, refs, ctx) ==
    LET columns == node.source.columns
        data == node.source.data
        seen == {refs[i].name : i \in 1..Len(refs)}
        indices == SelectSeq([i \in 1..Len(columns) |-> i], LAMBDA i : columns[i] \in seen)
        all_seen == Cardinality(seen) = Len(columns)
        rows == IF all_seen THEN data
                ELSE IF Cardinality(seen) > 0
                THEN [r \in 1..Len(data) |-> [j \in 1..Len(indices) |-> data[r][indices[j]]]]
                ELSE <<[j \in 1..Len(data) |-> NoneVal]>>
        column_aliases == IF all_seen THEN columns
                          ELSE IF Cardinality(seen) > 0
                          THEN [j \in 1..Len(indices) |-> columns[indices[j]]]
                          ELSE <<"_">>
        Let_prefix(a, parent, prefix) ==
            LET lit_none(col) == LIT(NoneVal)
                col_id(col) == ID(col, parent)
                \* f"{col_prefix}{col_index}", col_index counting the columns seen so far
                col_nth(col) ==
                    ID(prefix[1] \o ToString(ctx.dialect.values_column_index - 1
                                             + Cardinality({j \in 1..Len(indices) :
                                                              \E k \in 1..Len(columns) :
                                                                 /\ columns[k] = col
                                                                 /\ indices[j] <= k})),
                       parent) IN
            IF \E i \in 1..Len(refs) :
                  ~(refs[i].kind = "Get" /\ refs[i].over = Null
                    /\ refs[i].name \in SeqToSet(columns))
            THEN Raised(AssertionError(ctx))
            ELSE IF Len(rows) = 0
            THEN [ctx |-> a.ctx,
                  out |-> Assemblage(WHERE(LIT(BoolVal(FALSE)), Null),
                                     seen_columns(columns, seen, lit_none), repl_by_name(refs))]
            ELSE IF ~ctx.dialect.has_as_columns
            THEN IF prefix = <<>> THEN Raised(AssertionError(a.ctx))
                 ELSE [ctx |-> a.ctx,
                       out |-> Assemblage(FROM(AS(a.out, Null, VALUES(rows))),
                                          seen_columns(columns, seen, col_nth), repl_by_name(refs))]
            ELSE [ctx |-> a.ctx,
                  out |-> Assemblage(FROM(AS(a.out, Columns(column_aliases), VALUES(rows))),
                                     seen_columns(columns, seen, col_id), repl_by_name(refs))]
        Let_parent(a, parent) ==
            Let_prefix(a, parent, ctx.dialect.values_column_prefix)
        Let_a(a) ==
            Let_parent(a, ID(a.out, Null))
    IN Let_a(allocate_alias(ctx, "values"))

\* with ctx.substitute_vars_n_subs(subs=subs): translate(nodes, ctx)
translate_under(nodes, subs, ctx) ==
    LET Let_t(t) ==
            [ctx |-> Restore(t.ctx, ctx), out |-> t.out]
    IN Let_t(translate_list(nodes, [ctx EXCEPT !.subs = subs]))

RECURSIVE group_translates(_, _, _, _, _, _, _)
group_translates(node, refs, i, subs, by, translates, ctx) ==
    IF i > Len(refs) \/ Failed(ctx) THEN [ctx |-> ctx, out |-> translates]
    ELSE LET ref == refs[i] IN
         IF ref.kind = "Get" /\ ref.over = Null
         THEN IF ~DHas(node.label_map, ref.name)
              THEN [ctx |-> AssertionError(ctx), out |-> translates]
              ELSE group_translates(
                       node, refs, i + 1, subs, by,
                       Append(translates,
                              Pair(ref, by[DGet(node.label_map, ref.name, 0) + 1])), ctx)
         ELSE IF ref.kind = "Agg" /\ ref.over = Null
         THEN LET Let_t(t) ==
                      group_translates(node, refs, i + 1, subs, by,
                                       Append(translates, Pair(ref, t.out[1])), t.ctx)
              IN Let_t(translate_under(<<ref>>, subs, ctx))
         ELSE group_translates(node, refs, i + 1, subs, by, translates, ctx)

\* {name: ID(name) for name in cols}
ColumnIds(cols) == [i \in 1..Len(cols) |-> [key |-> cols[i].key, val |-> ID(cols[i].key, Null)]]

assemble_group(node, refs, ctx) ==
    LET has_aggs == \E i \in 1..Len(refs) : refs[i].kind = "Agg"
        Let_rc(q, by, tr, rc) ==
            IF Failed(tr.ctx) THEN Raised(tr.ctx)
            ELSE IF Len(rc.cols) = 0 THEN Raised(AssertionError(tr.ctx))
            ELSE IF has_aggs
            THEN [ctx |-> tr.ctx, out |-> Assemblage(GROUP(by.out, q.tail), rc.cols, rc.repl)]
            ELSE [ctx |-> tr.ctx,
                  out |-> Assemblage(SELECT(cols_to_select_args(rc.cols), TRUE, q.tail),
                                     ColumnIds(rc.cols), rc.repl)]
        Let_tr(q, by, tr) ==
            Let_rc(q, by, tr, translates_to_repl_n_cols(tr.out))
        Let_by(q, subs, by) ==
            Let_tr(q, by,
                   group_translates(node, refs, 1, subs.out, by.out, <<>>, by.ctx))
        Let_subs(q, subs) ==
            Let_by(q, subs, translate_under(node.by, subs.out, subs.ctx))
        Let_q(base, q) ==
            Let_subs(q, get_make_subs(base.out, q.alias, q.ctx))
        Let_base(base) ==
            IF Failed(base.ctx) THEN Raised(base.ctx)
            ELSE Let_q(base,
                       Subquery(base.out, node.over,
                                base.out.clause = Null
                                   \/ IsA(base.out.clause, {"FROM", "JOIN", "WHERE"}),
                                base.ctx))
    IN IF Len(node.by) = 0 /\ ~has_aggs THEN assemble_none(refs, ctx)
       ELSE Let_base(assemble_box(node.over, ctx))

assemble_int_bind(node, refs, ctx) ==
    LET Let_a(v, a) ==
            IF Failed(v.ctx) THEN Raised(v.ctx)
            ELSE [ctx |-> Restore(a.ctx, v.ctx), out |-> a.out]
        Let_v(v) ==
            Let_a(v, assemble_box(node.over, [v.ctx EXCEPT !.vars_ = v.out]))
    IN Let_v(bind_vars(node, 1, ctx.vars_, ctx))

assemble_int_iterate(node, refs, ctx) ==
    LET Let_tr(base, tr) ==
            Assembled(base.out.clause, tr.out, tr.ctx)
        Let_subs(base, subs) ==
            Let_tr(base, from_subs(refs, subs.out, subs.ctx))
        Let_base(base) ==
            IF Failed(base.ctx) THEN Raised(base.ctx)
            ELSE IF ~IsA(base.out.clause, {"FROM"}) THEN Raised(AssertionError(base.ctx))
            ELSE Let_subs(base, get_make_subs(base.out, NoAlias, base.ctx))
        Let_asmb_p(asmb_p) ==
            Let_base(unwrap_repl(asmb_p.out, Restore(asmb_p.ctx, ctx)))
    IN Let_asmb_p(assemble_box(node.over, [ctx EXCEPT !.vars_ = <<>>]))

\* subs[ref] = clause_of(name) for the items of repl
subs_update(subs, repl, clause_of(_)) ==
    DUpdate(subs, [i \in 1..Len(repl) |->
                     [key |-> repl[i].key, val |-> clause_of(repl[i].val)]])

assemble_int_join(node, refs, ctx) ==
    LET Let_tr(left, right, c1, clause, tr) ==
            IF Failed(c1) THEN Raised(c1)
            ELSE Assembled(clause, tr.out, tr.ctx)
        Let_clause(left, right, c1, subs_p, on, clause) ==
            Let_tr(left, right, c1, clause, from_subs(refs, subs_p, on.ctx))
        Let_on(left, q, lateral, right, c1, joinee, subs_p, on) ==
            Let_clause(left, right, c1, subs_p, on,
                       JOIN(joinee, on.out[1], node.left, node.right, lateral, q.tail))
        Let_subs_p(left, q, lateral, right, c1, joinee, subs_p) ==
            Let_on(left, q, lateral, right, c1, joinee, subs_p, translate_under(<<node.on>>, subs_p, c1))
        Let_joinee(left, q, subs, lateral, right, cond_1, cond_2, ra, c1, joinee) ==
            LET col_of(name) == DGet(right.out.cols, name, Null)
                id_of(name) == ID(name, ID(ra.out, Null)) IN
            Let_subs_p(left, q, lateral, right, c1, joinee,
                       IF cond_1 \/ cond_2
                       THEN subs_update(subs.out, right.out.repl, col_of)
                       ELSE subs_update(subs.out, right.out.repl, id_of))
        Let_c1(left, q, subs, lateral, right, rclause, cond_1, cond_2, ra, c1) ==
            Let_joinee(left, q, subs, lateral, right, cond_1, cond_2, ra, c1,
                       IF cond_1 \/ cond_2 THEN rclause.over
                       ELSE AS(ra.out, Null, get_complete_select(right.out)))
        Let_missing(left, q, subs, lateral, right, rclause, cond_1, cond_2, ra, missing) ==
            Let_c1(left, q, subs, lateral, right, rclause, cond_1, cond_2, ra,
                   IF cond_1 \/ cond_2
                   THEN (IF missing THEN KeyError(right.ctx) ELSE right.ctx)
                   ELSE ra.ctx)
        Let_ra(left, q, subs, lateral, right, rclause, cond_1, cond_2, ra) ==
            Let_missing(left, q, subs, lateral, right, rclause, cond_1, cond_2, ra,
                        \E i \in 1..Len(right.out.repl) :
                           ~DHas(right.out.cols, right.out.repl[i].val))
        Let_cond_2(left, q, subs, lateral, right, rclause, cond_1, cond_2) ==
            Let_ra(left, q, subs, lateral, right, rclause, cond_1, cond_2, allocate_alias_node(right.ctx, node.joinee))
        Let_cond_1(left, q, subs, lateral, right, rclause, cond_1) ==
            Let_cond_2(left, q, subs, lateral, right, rclause, cond_1,
                       /\ IsA(rclause, {"FROM"})
                       /\ IsA(rclause.over, {"ID"})
                       /\ rclause.over.over = Null)
        Let_rclause(left, q, subs, lateral, right, rclause) ==
            Let_cond_1(left, q, subs, lateral, right, rclause,
                       /\ IsA(rclause, {"FROM"})
                       /\ IsA(rclause.over, {"AS"})
                       /\ rclause.over.columns = Null
                       /\ IsA(rclause.over.over, {"ID"})
                       /\ rclause.over.over.over = Null)
        Let_right(left, q, subs, lateral, right) ==
            IF Failed(right.ctx) THEN Raised(right.ctx)
            ELSE Let_rclause(left, q, subs, lateral, right, right.out.clause)
        Let_lateral(left, q, subs, lateral) ==
            Let_right(left, q, subs, lateral,
                      IF lateral
                      THEN LET Let_r(r) ==
                                   [ctx |-> Restore(r.ctx, subs.ctx), out |-> r.out]
                           IN Let_r(assemble_box(node.joinee, [subs.ctx EXCEPT !.subs = subs.out]))
                      ELSE assemble_box(node.joinee, subs.ctx))
        Let_subs(left, q, subs) ==
            Let_lateral(left, q, subs, Len(node.lateral) > 0)
        Let_q(left, q) ==
            Let_subs(left, q, get_make_subs(left.out, q.alias, q.ctx))
        Let_left(left) ==
            IF Failed(left.ctx) \/ node.skip THEN left
            ELSE Let_q(left,
                       Subquery(left.out, node.over, IsA(left.out.clause, {"FROM", "JOIN"}),
                                left.ctx))
    IN Let_left(assemble_box(node.over, ctx))

\* the loop of assemble(Knot) over refs
RECURSIVE knot_repl(_, _, _, _, _, _)
knot_repl(refs, i, left, repl, seen, dups) ==
    IF i > Len(refs) THEN [raised |-> "", repl |-> repl, dups |-> dups]
    ELSE LET ref == refs[i]
             Let_name(name) ==
                 IF ref.kind # "NameBound"
                 THEN [raised |-> "AssertionError", repl |-> repl, dups |-> dups]
                 ELSE IF ~DHas(left.repl, ref.over)
                 THEN [raised |-> "KeyError", repl |-> repl, dups |-> dups]
                 ELSE IF name \in seen
                 THEN knot_repl(refs, i + 1, left, DPut(repl, ref, name), seen, dups \cup {ref.over})
                 ELSE knot_repl(refs, i + 1, left, DPut(repl, ref, name), seen \cup {name}, dups)
         IN Let_name(DGet(left.repl, ref.over, NoAlias))

assemble_knot(node, refs, ctx) ==
    LET Let_tr(left, k, union_alias, right, cs, tr) ==
            Assembled(FROM(ID(union_alias, Null)), tr.out, tr.ctx)
        Let_subs(left, k, union_alias, right, cs, subs) ==
            Let_tr(left, k, union_alias, right, cs, from_subs(refs, subs.out, subs.ctx))
        Let_c2(left, k, union_alias, right, cs, union_asmb, c2) ==
            Let_subs(left, k, union_alias, right, cs, get_make_subs(union_asmb, union_alias, c2))
        Let_union_asmb(left, k, union_alias, right, cs, union_asmb) ==
            Let_c2(left, k, union_alias, right, cs, union_asmb,
                   [cs.ctx EXCEPT
                      !.cte_map = DPut(@, BoxRef(node.box),
                                       CTEAssemblage(union_asmb, union_alias, <<>>)),
                      !.recursive = TRUE])
        Let_cols(left, k, union_alias, right, cs, union_clause, cols) ==
            Let_union_asmb(left, k, union_alias, right, cs, Assemblage(union_clause, cols, k.repl))
        Let_union_clause(left, k, union_alias, right, urefs, cs, union_clause) ==
            Let_cols(left, k, union_alias, right, cs, union_clause,
                     DZip([i \in 1..Len(urefs) |-> DGet(left.out.repl, urefs[i], NoAlias)],
                          [i \in 1..Len(urefs) |->
                             ID(DGet(left.out.repl, urefs[i], NoAlias), Null)], <<>>))
        Let_cs(left, k, union_alias, right, urefs, cs) ==
            IF Failed(cs.ctx) THEN Raised(cs.ctx)
            ELSE Let_union_clause(left, k, union_alias, right, urefs, cs,
                                  UNION_(Tail(cs.out), TRUE, cs.out[1]))
        Let_urefs(left, k, union_alias, right, urefs) ==
            Let_cs(left, k, union_alias, right, urefs,
                   union_branches(<<node.over, node.iterator>>, <<left.out, right.out>>, 1,
                                  urefs, left.out.repl, right.ctx))
        Let_kept(left, k, union_alias, right, kept) ==
            Let_urefs(left, k, union_alias, right, [i \in 1..Len(kept) |-> kept[i].over])
        Let_right(left, k, union_alias, right) ==
            IF Failed(right.ctx) THEN Raised(right.ctx)
            ELSE Let_kept(left, k, union_alias, right,
                          SelectSeq(refs, LAMBDA ref : ref.over \notin k.dups))
        Let_asmb(left, k, union_alias, asmb) ==
            Let_right(left, k, union_alias, unwrap_repl(asmb.out, asmb.ctx))
        Let_c1(left, k, union_alias, c1) ==
            Let_asmb(left, k, union_alias, assemble_box(node.iterator, c1))
        Let_union_alias(left, k, temp_union, ua, union_alias) ==
            Let_c1(left, k, union_alias,
                   [ua.ctx EXCEPT !.cte_map =
                      DPut(@, BoxRef(node.box), CTEAssemblage(temp_union, union_alias, <<>>))])
        Let_ua(left, k, temp_union, ua) ==
            Let_union_alias(left, k, temp_union, ua, ua.out)
        Let_temp_union(left, k, temp_union) ==
            Let_ua(left, k, temp_union, allocate_alias(left.ctx, node.name))
        Let_k(left, k) ==
            IF k.raised # "" THEN Raised(Raise(left.ctx, k.raised, ""))
            ELSE Let_temp_union(left, k, Assemblage(left.out.clause, left.out.cols, k.repl))
        Let_left(left) ==
            IF Failed(left.ctx) THEN Raised(left.ctx)
            ELSE Let_k(left, knot_repl(refs, 1, left.out, <<>>, {}, {}))
    IN Let_left(assemble_box(node.over, ctx))

assemble_limit(node, refs, ctx) ==
    LET Let_tr(base, q, tr) ==
            Assembled(LIMIT(node.limit, node.offset, q.tail), tr.out, tr.ctx)
        Let_subs(base, q, subs) ==
            Let_tr(base, q, from_subs(refs, subs.out, subs.ctx))
        Let_q(base, q) ==
            Let_subs(base, q, get_make_subs(base.out, q.alias, q.ctx))
        Let_base(base) ==
            IF Failed(base.ctx) \/ (node.offset = <<>> /\ node.limit = <<>>) THEN base
            ELSE Let_q(base,
                       Subquery(base.out, node.over,
                                base.out.clause = Null
                                   \/ IsA(base.out.clause,
                                          {"FROM", "JOIN", "WHERE", "GROUP", "HAVING", "ORDER"}),
                                base.ctx))
    IN Let_base(assemble_box(node.over, ctx))

assemble_order(node, refs, ctx) ==
    LET Let_tr(base, q, by, tr) ==
            Assembled(ORDER(by.out, q.tail), tr.out, tr.ctx)
        Let_by(base, q, subs, by) ==
            Let_tr(base, q, by, from_subs(refs, subs.out, by.ctx))
        Let_subs(base, q, subs) ==
            Let_by(base, q, subs, translate_under(node.by, subs.out, subs.ctx))
        Let_q(base, q) ==
            Let_subs(base, q, get_make_subs(base.out, q.alias, q.ctx))
        Let_base(base) ==
            IF Failed(base.ctx) \/ Len(node.by) = 0 THEN base
            ELSE Let_q(base,
                       Subquery(base.out, node.over,
                                base.out.clause = Null
                                   \/ IsA(base.out.clause,
                                          {"FROM", "JOIN", "WHERE", "GROUP", "HAVING"}),
                                base.ctx))
    IN Let_base(assemble_box(node.over, ctx))

RECURSIVE partition_translates(_, _, _, _, _, _)
partition_translates(refs, i, subs, partition, translates, ctx) ==
    IF i > Len(refs) \/ Failed(ctx) THEN [ctx |-> ctx, out |-> translates]
    ELSE LET ref == refs[i] IN
         IF ref.kind = "Agg" /\ ref.over = Null
         THEN LET Let_t(t) ==
                      IF Failed(t.ctx) THEN [ctx |-> t.ctx, out |-> translates]
                      ELSE partition_translates(
                               refs, i + 1, subs, partition,
                               Append(translates, Pair(ref, Rebase(t.out, partition))), t.ctx)
              IN Let_t(translate(ref, ctx))
         ELSE IF ~DHas(subs, ref) THEN [ctx |-> KeyError(ctx), out |-> translates]
         ELSE partition_translates(refs, i + 1, subs, partition,
                                   Append(translates, Pair(ref, DGet(subs, ref, Null))), ctx)

assemble_partition(node, refs, ctx) ==
    LET Let_tr(base, q, subs, tr) ==
            Assembled(WINDOW(<<>>, q.tail), tr.out, Restore(tr.ctx, subs.ctx))
        Let_partition(base, q, subs, order_by, partition) ==
            Let_tr(base, q, subs,
                   partition_translates(refs, 1, subs.out, partition, <<>>, order_by.ctx))
        Let_order_by(base, q, subs, by, order_by) ==
            Let_partition(base, q, subs, order_by, PARTITION(by.out, order_by.out, Null))
        Let_by(base, q, subs, by) ==
            Let_order_by(base, q, subs, by, translate_list(node.order_by, by.ctx))
        Let_c1(base, q, subs, c1) ==
            Let_by(base, q, subs, translate_list(node.by, c1))
        Let_subs(base, q, subs) ==
            Let_c1(base, q, subs, [subs.ctx EXCEPT !.subs = subs.out])
        Let_q(base, q) ==
            Let_subs(base, q, get_make_subs(base.out, q.alias, q.ctx))
        Let_base(base) ==
            IF Failed(base.ctx) \/ ~\E i \in 1..Len(refs) : refs[i].kind = "Agg" THEN base
            ELSE Let_q(base,
                       Subquery(base.out, node.over,
                                base.out.clause = Null
                                   \/ IsA(base.out.clause,
                                          {"FROM", "JOIN", "WHERE", "GROUP", "HAVING"}),
                                base.ctx))
    IN Let_base(assemble_box(node.over, ctx))

\* cols[name] = translate(node.args[i], ctx) for the entries of label_map
RECURSIVE select_cols(_, _, _, _)
select_cols(node, i, cols, ctx) ==
    IF i > Len(node.label_map) \/ Failed(ctx) THEN [ctx |-> ctx, out |-> cols]
    ELSE LET Let_t(t) ==
                 select_cols(node, i + 1, DPut(cols, node.label_map[i].key, t.out), t.ctx)
         IN Let_t(translate(node.args[node.label_map[i].val + 1], ctx))

assemble_select(node, refs, ctx) ==
    LET Let_clause(cols, c1, clause) ==
            IF Failed(c1) THEN Raised(c1)
            ELSE IF \E i \in 1..Len(refs) : ~(refs[i].kind = "Get" /\ refs[i].over = Null)
            THEN Raised(AssertionError(c1))
            ELSE [ctx |-> c1, out |-> Assemblage(clause, ColumnIds(cols.out), repl_by_name(refs))]
        Let_c1(q, cols, c1) ==
            Let_clause(cols, c1, SELECT(cols_to_select_args(cols.out), FALSE, q.tail))
        Let_cols(q, subs, cols) ==
            Let_c1(q, cols, Restore(cols.ctx, subs.ctx))
        Let_subs(q, subs) ==
            Let_cols(q, subs,
                     select_cols(node, 1, <<>>, [subs.ctx EXCEPT !.subs = subs.out]))
        Let_q(base, q) ==
            Let_subs(q, get_make_subs(base.out, q.alias, q.ctx))
        Let_base(base) ==
            IF Failed(base.ctx) THEN Raised(base.ctx)
            ELSE Let_q(base,
                       Subquery(base.out, node.over,
                                ~IsA(base.out.clause, {"SELECT", "UNION"}), base.ctx))
    IN Let_base(assemble_box(node.over, ctx))

IsAnd(cond) == IsA(cond, {"OP"}) /\ cond.name = "AND"
merge_conditions(cond_1, cond_2) ==
    OP("AND", (IF IsAnd(cond_1) THEN cond_1.args ELSE <<cond_1>>)
                 \o (IF IsAnd(cond_2) THEN cond_2.args ELSE <<cond_2>>))

assemble_where(node, refs, ctx) ==
    LET Let_tr(base, t, cond, clause, tr) ==
            IF Failed(t.ctx) THEN Raised(t.ctx)
            ELSE IF IsA(cond, {"LIT"}) /\ EqualsTrue(cond.val) THEN [ctx |-> t.ctx, out |-> base.out]
            ELSE Assembled(clause, tr.out, tr.ctx)
        Let_clause(base, subs, t, cond, clause) ==
            Let_tr(base, t, cond, clause, from_subs(refs, subs.out, t.ctx))
        Let_cond(base, bc, inline, q, subs, t, cond) ==
            Let_clause(base, subs, t, cond,
                       IF ~inline THEN WHERE(cond, q.tail)
                       ELSE IF IsA(bc, {"WHERE"})
                       THEN WHERE(merge_conditions(bc.condition, cond), bc.over)
                       ELSE IF IsA(bc, {"GROUP"}) THEN HAVING(cond, bc)
                       ELSE IF IsA(bc, {"HAVING"})
                       THEN HAVING(merge_conditions(bc.condition, cond), bc.over)
                       ELSE WHERE(cond, bc))
        Let_t(base, bc, inline, q, subs, t) ==
            Let_cond(base, bc, inline, q, subs, t, t.out[1])
        Let_subs(base, bc, inline, q, subs) ==
            Let_t(base, bc, inline, q, subs, translate_under(<<node.condition>>, subs.out, subs.ctx))
        Let_q(base, bc, inline, q) ==
            Let_subs(base, bc, inline, q, get_make_subs(base.out, q.alias, q.ctx))
        Let_inline(base, bc, inline) ==
            Let_q(base, bc, inline, Subquery(base.out, node.over, inline, base.ctx))
        Let_bc(base, bc) ==
            Let_inline(base, bc,
                       \/ bc = Null
                       \/ IsA(bc, {"FROM", "JOIN", "WHERE", "HAVING"})
                       \/ (IsA(bc, {"GROUP"}) /\ Len(bc.by) > 0))
        Let_base(base) ==
            IF Failed(base.ctx) THEN Raised(base.ctx)
            ELSE Let_bc(base, base.out.clause)
    IN Let_base(assemble_box(node.over, ctx))

\* the loop of assemble(With) over node.args
RECURSIVE with_args(_, _, _)
with_args(node, i, ctx) ==
    IF i > Len(node.args) \/ Failed(ctx) THEN ctx
    ELSE LET arg == node.args[i]
             Let_a(asmb, a) ==
                 IF Failed(a.ctx) THEN a.ctx
                 ELSE with_args(node, i + 1,
                                [a.ctx EXCEPT !.cte_map =
                                   DPut(@, arg, CTEAssemblage(asmb.out, a.out, node.materialized))])
             Let_asmb(asmb) ==
                 Let_a(asmb, allocate_alias_node(asmb.ctx, arg))
         IN Let_asmb(assemble_box(arg, ctx))

assemble(node, refs, ctx) ==
    IF Failed(ctx) THEN Raised(ctx)
    ELSE CASE node = Null -> assemble_none(refs, ctx)
           [] node.kind = "Append" -> assemble_append(node, refs, ctx)
           [] node.kind = "As" -> assemble_as(node, refs, ctx)
           [] node.kind = "Define" -> assemble_define(node, refs, ctx)
           [] node.kind = "FromNothing" -> assemble_none(refs, ctx)
           [] node.kind = "FromReference" -> assemble_from_reference(node, refs, ctx)
           [] node.kind = "FromTable" -> assemble_from_table(node, refs, ctx)
           [] node.kind = "FromValues" -> assemble_from_values(node, refs, ctx)
           [] node.kind = "Group" -> assemble_group(node, refs, ctx)
           [] node.kind = "IntBind" -> assemble_int_bind(node, refs, ctx)
           [] node.kind = "IntIterate" -> assemble_int_iterate(node, refs, ctx)
           [] node.kind = "IntJoin" -> assemble_int_join(node, refs, ctx)
           [] node.kind = "Knot" -> assemble_knot(node, refs, ctx)
           [] node.kind = "Limit" -> assemble_limit(node, refs, ctx)
           [] node.kind = "Order" -> assemble_order(node, refs, ctx)
           [] node.kind = "Partition" -> assemble_partition(node, refs, ctx)
           [] node.kind = "Select" -> assemble_select(node, refs, ctx)
           [] node.kind = "Where" -> assemble_where(node, refs, ctx)
           [] node.kind = "With" -> assemble_box(node.over, with_args(node, 1, ctx))
           [] OTHER -> Raised(Raise(ctx, "NotImplementedError", ""))

\* the AS clause of one CTE of the top-level WITH
cte_arg(cte_asmb) ==
    LET Let_over(cols, over) ==
            AS(cte_asmb.name, Columns(cols), over)
        Let_select(cols, select) ==
            Let_over(cols,
                     IF cte_asmb.materialized = <<>> THEN select
                     ELSE NOTE(IF cte_asmb.materialized[1] THEN "MATERIALIZED"
                               ELSE "NOT MATERIALIZED", select))
        Let_cols(cols) ==
            Let_select(cols, get_complete_select(cte_asmb.asmb))
        Let_names(names) ==
            Let_cols(IF Len(names) = 0 THEN <<"_">> ELSE names)
    IN Let_names(DKeys(cte_asmb.asmb.cols))

\* a faulty variant of translate_toplevel, which never marks the WITH recursive
translate_toplevel_plain(node, ctx) ==
    LET Let_with_args_(t, with_args_) ==
            [ctx |-> t.ctx,
             out |-> IF Len(with_args_) > 0 THEN WITH_(with_args_, FALSE, t.out) ELSE t.out]
        Let_ctes(t, ctes) ==
            Let_with_args_(t, [i \in 1..Len(ctes) |-> cte_arg(ctes[i].val)])
        Let_t(t) ==
            IF Failed(t.ctx) THEN t
            ELSE Let_ctes(t, SelectSeq(t.ctx.cte_map, LAMBDA e : ~e.val.external))
    IN Let_t(translate(node, ctx))

translate_toplevel(node, ctx) ==
    LET Let_with_args_(t, with_args_) ==
            [ctx |-> t.ctx,
             out |-> IF Len(with_args_) > 0 THEN WITH_(with_args_, t.ctx.recursive, t.out)
                     ELSE t.out]
        Let_ctes(t, ctes) ==
            Let_with_args_(t, [i \in 1..Len(ctes) |-> cte_arg(ctes[i].val)])
        Let_t(t) ==
            IF Failed(t.ctx) THEN t
            ELSE Let_ctes(t, SelectSeq(t.ctx.cte_map, LAMBDA e : ~e.val.external))
    IN Let_t(translate(node, ctx))

(***************************************************************************)
(* The serialize pass: a clause tree is written to the buffer of a         *)
(* SerializationContext.  Every routine gives the context it leaves        *)
(* behind; once ctx.err is set nothing more is written.                    *)
(***************************************************************************)
SerializationContext(dialect) ==
    [dialect |-> dialect, buffer |-> "", level |-> 0, nested |-> FALSE, variables |-> <<>>,
     err |-> Null]

write(ctx, data) == [ctx EXCEPT !.buffer = @ \o data]

RECURSIVE Indent(_)
Indent(level) == IF level <= 0 THEN "" ELSE "  " \o Indent(level - 1)
newline(ctx) == write(ctx, "\n" \o Indent(ctx.level))

\* str.replace(old, new) for a one-character old
RECURSIVE Replace(_, _, _)
Replace(s, old, new) ==
    IF Len(s) = 0 THEN ""
    ELSE (IF SubSeq(s, 1, 1) = old THEN new ELSE SubSeq(s, 1, 1))
            \o Replace(SubSeq(s, 2, Len(s)), old, new)

\* serialize of a Python literal: None, bool, int, str
serialize_value(data, ctx) ==
    CASE data.t = "none" -> write(ctx, "NULL")
      [] data.t = "bool" ->
            IF ctx.dialect.has_bool_literals
            THEN write(ctx, IF data.b THEN "TRUE" ELSE "FALSE")
            ELSE write(ctx, IF data.b THEN "(1 = 1)" ELSE "(1 = 0)")
      [] data.t = "int" -> write(ctx, ToString(data.i))
      [] data.t = "str" -> write(ctx, "'" \o Replace(data.s, "'", "''") \o "'")

\* serialize of a Symbol: quoted as an identifier
serialize_symbol(data, ctx) ==
    LET lq == ctx.dialect.id_quotes[1]
        rq == ctx.dialect.id_quotes[2] IN
    write(ctx, lq \o Replace(data, rq, rq \o rq) \o rq)

RECURSIVE serialize_symbols(_, _, _)
serialize_symbols(data, i, ctx) ==
    IF i > Len(data) THEN ctx
    ELSE serialize_symbols(data, i + 1,
                           serialize_symbol(data[i], IF i > 1 THEN write(ctx, ", ") ELSE ctx))

\* list.index(name): the 0-based position of the first occurrence, -1 if absent
index(variables, name) ==
    IF \E i \in 1..Len(variables) : variables[i] = name
    THEN (CHOOSE i \in 1..Len(variables) :
            variables[i] = name /\ \A j \in 1..(i - 1) : variables[j] # name) - 1
    ELSE -1

\* a faulty variant of VAR_serialize: the numbered style writes the 0-based
\* position of the name
VAR_serialize_zero_based(self, ctx) ==
    LET Let_c2(c1, style, pos, c2) ==
            IF style = POSITIONAL THEN [c1 EXCEPT !.variables = Append(@, self.name)]
            ELSE IF style = NAMED THEN write(c2, self.name)
            ELSE IF style = NUMBERED THEN write(c2, ToString(pos))
            ELSE c2
        Let_found(c1, style, found) ==
            Let_c2(c1, style, IF found >= 0 THEN found ELSE Len(c1.variables),
                   IF found >= 0 THEN c1 ELSE [c1 EXCEPT !.variables = Append(@, self.name)])
        Let_c1(c1) ==
            Let_found(c1, ctx.dialect.var_style, index(c1.variables, self.name))
    IN Let_c1(write(ctx, ctx.dialect.var_prefix))

VAR_serialize(self, ctx) ==
    LET Let_c2(c1, style, pos, c2) ==
            IF style = POSITIONAL THEN [c1 EXCEPT !.variables = Append(@, self.name)]
            ELSE IF style = NAMED THEN write(c2, self.name)
            ELSE IF style = NUMBERED THEN write(c2, ToString(1 + pos))
            ELSE c2
        Let_pos(c1, style, found, pos) ==
            Let_c2(c1, style, pos,
                   IF found >= 0 THEN c1 ELSE [c1 EXCEPT !.variables = Append(@, self.name)])
        Let_found(c1, style, found) ==
            Let_pos(c1, style, found, IF found >= 0 THEN found ELSE Len(c1.variables))
        Let_style(c1, style) ==
            Let_found(c1, style, index(c1.variables, self.name))
        Let_c1(c1) ==
            Let_style(c1, ctx.dialect.var_style)
    IN Let_c1(write(ctx, ctx.dialect.var_prefix))

RECURSIVE serialize(_, _)
RECURSIVE serialize_list(_, _, _, _)
RECURSIVE serialize_lines_from(_, _, _, _)
RECURSIVE CASE_args(_, _, _)
RECURSIVE UNION_args(_, _, _)
RECURSIVE VALUES_rows(_, _, _)
RECURSIVE WITH_args(_, _, _)

\* serialize(data: list, ctx, sep), from the i-th item on
serialize_list(data, i, sep, ctx) ==
    IF i > Len(data) \/ Failed(ctx) THEN ctx
    ELSE LET c1 == IF i = 1 THEN ctx
                   ELSE IF IsA(data[i], {"KW"}) THEN write(ctx, " ")
                   ELSE write(ctx, sep) IN
         serialize_list(data, i + 1, sep, serialize(data[i], c1))

ListSep(sep) == IF sep = <<>> THEN ", " ELSE " " \o sep[1] \o " "

serialize_lines_from(data, i, sep, ctx) ==
    IF i > Len(data) \/ Failed(ctx) THEN ctx
    ELSE LET c1 == IF i = 1 THEN ctx ELSE write(ctx, ListSep(sep)) IN
         serialize_lines_from(data, i + 1, sep, serialize(data[i], newline(c1)))

serialize_lines(data, sep, ctx) ==
    IF Len(data) = 0 THEN ctx
    ELSE IF Len(data) = 1 THEN serialize(data[1], write(ctx, " "))
    ELSE LET Let_c(c) ==
                 IF Failed(c) THEN c ELSE [c EXCEPT !.level = @ - 1]
         IN Let_c(serialize_lines_from(data, 1, sep, [ctx EXCEPT !.level = @ + 1]))

\* serialize(x, ctx) if x is not None
serialize_over(x, ctx) == IF x = Null THEN ctx ELSE serialize(x, ctx)

\* the opening of SELECT, UNION and VALUES when nested
open_nested(ctx) ==
    IF ctx.nested THEN newline(write([ctx EXCEPT !.level = @ + 1], "("))
    ELSE ctx
close_nested(ctx, nested_orig) ==
    IF Failed(ctx) THEN ctx
    ELSE LET c == [ctx EXCEPT !.nested = nested_orig] IN
         IF nested_orig THEN write(newline([c EXCEPT !.level = @ - 1]), ")") ELSE c

AGG_serialize(self, ctx) ==
    LET has_filter == self.filter_ # Null
        has_over == self.over # Null
        c1 == IF has_filter \/ has_over THEN write(ctx, "(") ELSE ctx
        Let_c6(c6) ==
            IF has_filter \/ has_over THEN write(c6, ")") ELSE c6
        Let_c5(c5) ==
            Let_c6(IF has_over THEN write(serialize(self.over, write(c5, " OVER (")), ")")
                   ELSE c5)
        Let_c4(c4) ==
            Let_c5(IF has_filter
                   THEN write(serialize(self.filter_, write(c4, " FILTER (WHERE ")), ")")
                   ELSE c4)
        Let_c3(c3) ==
            Let_c4(write(serialize_list(self.args, 1, ", ", c3), ")"))
        Let_c2(c2) ==
            Let_c3(IF self.distinct THEN write(c2, "DISTINCT ") ELSE c2)
    IN Let_c2(write(write(c1, self.name), "("))

AS_columns(self, ctx) ==
    IF self.columns = Null THEN ctx
    ELSE write(serialize_symbols(self.columns.names, 1, write(ctx, " (")), ") ")

AS_serialize(self, ctx) ==
    IF IsA(self.over, {"PARTITION"})
    THEN IF self.columns # Null THEN AssertionError(ctx)
         ELSE write(serialize(self.over, write(serialize_symbol(self.name, ctx), " AS (")), ")")
    ELSE IF self.over # Null
    THEN AS_columns(self, serialize_symbol(self.name, write(serialize(self.over, ctx), " AS ")))
    ELSE ctx

CASE_args(args, i, ctx) ==
    IF i > Len(args) \/ Failed(ctx) THEN ctx
    ELSE LET kw == IF (i - 1) % 2 = 0
                   THEN (IF i - 1 < Len(args) - 1 THEN " WHEN " ELSE " ELSE ")
                   ELSE " THEN " IN
         CASE_args(args, i + 1, serialize(args[i], write(ctx, kw)))

JOIN_serialize(self, ctx) ==
    LET c1 == newline(serialize_over(self.over, ctx))
        Let_c4(is_cross, c4) ==
            IF is_cross THEN c4 ELSE serialize(self.on, write(c4, " ON "))
        Let_c3(is_cross, c3) ==
            Let_c4(is_cross, serialize(self.joinee, c3))
        Let_c2(is_cross, c2) ==
            Let_c3(is_cross, IF self.lateral THEN write(c2, "LATERAL ") ELSE c2)
        Let_is_cross(is_cross) ==
            Let_c2(is_cross,
                   write(c1, IF is_cross THEN "CROSS JOIN "
                             ELSE IF self.left /\ self.right THEN "FULL JOIN "
                             ELSE IF self.left THEN "LEFT JOIN "
                             ELSE IF self.right THEN "RIGHT JOIN "
                             ELSE "INNER JOIN "))
    IN Let_is_cross(~self.left /\ ~self.right
                       /\ IsA(self.on, {"LIT"}) /\ EqualsTrue(self.on.val))

\* the attribute LimitStyle.MYSQL, which the enum does not have, is looked
\* up as soon as a limit or an offset is there
LIMIT_serialize(self, ctx) ==
    LET Let_c1(c1) ==
            IF self.offset = <<>> /\ self.limit = <<>> THEN c1
            ELSE Raise(c1, "AttributeError", "MYSQL")
    IN Let_c1(serialize_over(self.over, ctx))

NOTE_serialize(self, ctx) ==
    IF self.over = Null THEN write(ctx, self.text)
    ELSE IF self.postfix THEN write(serialize(self.over, ctx), " " \o self.text)
    ELSE serialize(self.over, write(ctx, self.text \o " "))

OP_serialize(self, ctx) ==
    IF Len(self.args) = 0 THEN write(ctx, self.name)
    ELSE IF Len(self.args) = 1
    THEN write(serialize(self.args[1], write(ctx, "(" \o self.name \o " ")), ")")
    ELSE write(serialize_list(self.args, 1, ListSep(<<self.name>>), write(ctx, "(")), ")")

PARTITION_serialize(self, ctx) ==
    LET sp(b) == IF b THEN " " ELSE ""
        Let_c3(c3) ==
            c3
        Let_s2(c2, s2) ==
            Let_c3(IF Len(self.order_by) > 0
                   THEN serialize_list(self.order_by, 1, ", ", write(c2, sp(s2) \o "ORDER BY "))
                   ELSE c2)
        Let_c2(s1, c2) ==
            Let_s2(c2, s1 \/ Len(self.by) > 0)
        Let_s1(c1, s1) ==
            Let_c2(s1,
                   IF Len(self.by) > 0
                   THEN serialize_list(self.by, 1, ", ", write(c1, sp(s1) \o "PARTITION BY "))
                   ELSE c1)
        Let_c1(c1) ==
            Let_s1(c1, self.over # Null)
    IN Let_c1(serialize_over(self.over, ctx))

SELECT_serialize(self, ctx) ==
    LET c1 == [open_nested(ctx) EXCEPT !.nested = TRUE]
        Let_c4(c4) ==
            close_nested(serialize_over(self.over, c4), ctx.nested)
        Let_c3(c3) ==
            Let_c4(serialize_lines(self.args, <<>>, c3))
        Let_c2(c2) ==
            Let_c3(IF self.distinct THEN write(c2, " DISTINCT") ELSE c2)
    IN Let_c2(write(c1, "SELECT"))

SORT_serialize(self, ctx) ==
    LET c1 == IF self.over # Null THEN write(serialize(self.over, ctx), " ") ELSE ctx
        Let_c2(c2) ==
            IF self.nulls # <<>> THEN write(c2, " NULLS " \o self.nulls[1]) ELSE c2
    IN Let_c2(write(c1, self.value))

UNION_args(self, i, ctx) ==
    IF i > Len(self.args) \/ Failed(ctx) THEN ctx
    ELSE UNION_args(self, i + 1,
                    serialize(self.args[i],
                              newline(write(newline(ctx),
                                            IF self.all_ THEN "UNION ALL" ELSE "UNION"))))

UNION_serialize(self, ctx) ==
    LET c1 == [open_nested(ctx) EXCEPT !.nested = FALSE] IN
    close_nested(UNION_args(self, 1, serialize_over(self.over, c1)), ctx.nested)

RECURSIVE VALUES_row(_, _, _)
VALUES_row(row, j, ctx) ==
    IF j > Len(row) THEN ctx
    ELSE VALUES_row(row, j + 1,
                    serialize_value(row[j], IF j > 1 THEN write(ctx, ", ") ELSE ctx))

VALUES_rows(self, i, ctx) ==
    IF i > Len(self.rows) THEN ctx
    ELSE LET Let_c2(c2) ==
                 VALUES_rows(self, i + 1, write(VALUES_row(self.rows[i], 1, write(c2, "(")), ")"))
             Let_row_prefix(c1, row_prefix) ==
                 Let_c2(IF row_prefix # <<>> THEN write(c1, row_prefix[1]) ELSE c1)
             Let_c1(c1) ==
                 Let_row_prefix(c1, ctx.dialect.values_row_constructor)
         IN Let_c1(IF i > 1 THEN newline(write(ctx, ",")) ELSE ctx)

VALUES_serialize(self, ctx) ==
    LET l == Len(self.rows)
        Let_c4(c4) ==
            close_nested(c4, ctx.nested)
        Let_c3(c3) ==
            Let_c4(IF l > 1 THEN [c3 EXCEPT !.level = @ - 1] ELSE c3)
        Let_c2(c2) ==
            Let_c3(VALUES_rows(self, 1, c2))
        Let_c1(c1) ==
            Let_c2(IF l = 1 THEN write(c1, " ")
                   ELSE IF l > 1 THEN newline([c1 EXCEPT !.level = @ + 1])
                   ELSE c1)
    IN Let_c1(write([open_nested(ctx) EXCEPT !.nested = TRUE], "VALUES"))

\* WHERE and HAVING: cond.name == "AND" compares a Symbol with a str, which
\* is never equal, so the condition is always written on the same line
Condition_serialize(self, keyword, ctx) ==
    LET c1 == write(newline(serialize_over(self.over, ctx)), keyword) IN
    serialize(self.condition, write(c1, " "))

WITH_args(self, i, ctx) ==
    IF i > Len(self.args) \/ Failed(ctx) THEN ctx
    ELSE LET arg == self.args[i]
             Let_c3(c3) ==
                 WITH_args(self, i + 1, IF Failed(c3) THEN c3 ELSE [c3 EXCEPT !.nested = ctx.nested])
             Let_body(c2, body) ==
                 Let_c3(serialize(body, [c2 EXCEPT !.nested = TRUE]))
             Let_c2(c2) ==
                 Let_body(c2, IF IsA(arg, {"AS"}) THEN arg.over ELSE arg)
             Let_c1(c1) ==
                 Let_c2(IF IsA(arg, {"AS"})
                        THEN write(AS_columns(arg, serialize_symbol(arg.name, c1)), " AS ")
                        ELSE c1)
         IN Let_c1(IF i > 1 THEN newline(write(ctx, ", ")) ELSE ctx)

WITH_serialize(self, ctx) ==
    LET Let_c3(c3) ==
            serialize_over(self.over, c3)
        Let_c2(c2) ==
            Let_c3(IF Len(self.args) > 0 THEN newline(WITH_args(self, 1, c2)) ELSE ctx)
        Let_c1(c1) ==
            Let_c2(IF self.recursive /\ ctx.dialect.has_recursive_annotation
                   THEN write(c1, "RECURSIVE ") ELSE c1)
    IN Let_c1(write(ctx, "WITH "))

serialize(data, ctx) ==
    IF Failed(ctx) THEN ctx
    ELSE IF data = Null THEN write(ctx, "NULL")
    ELSE CASE data.clause = "AGG" -> AGG_serialize(data, ctx)
           [] data.clause = "AS" -> AS_serialize(data, ctx)
           [] data.clause = "CASE" ->
                 write(CASE_args(data.args, 1, write(ctx, "(CASE")), " END)")
           [] data.clause = "FROM" ->
                 LET Let_c(c) ==
                         IF data.over # Null THEN serialize(data.over, write(c, " ")) ELSE c
                 IN Let_c(write(newline(ctx), "FROM"))
           [] data.clause = "FUN" ->
                 write(serialize_list(data.args, 1, ", ", write(ctx, data.name \o "(")), ")")
           [] data.clause = "GROUP" ->
                 LET Let_c(c) ==
                         IF Len(data.by) > 0
                         THEN serialize_lines(data.by, <<>>, write(newline(c), "GROUP BY"))
                         ELSE c
                 IN Let_c(serialize_over(data.over, ctx))
           [] data.clause = "HAVING" -> Condition_serialize(data, "HAVING", ctx)
           [] data.clause = "ID" ->
                 serialize_symbol(data.name,
                                  IF data.over # Null
                                  THEN write(serialize(data.over, ctx), ".") ELSE ctx)
           [] data.clause = "JOIN" -> JOIN_serialize(data, ctx)
           [] data.clause = "KW" ->
                 LET Let_c(c) ==
                         IF data.over # Null THEN serialize(data.over, write(c, " ")) ELSE c
                 IN Let_c(write(ctx, data.name))
           [] data.clause = "LIMIT" -> LIMIT_serialize(data, ctx)
           [] data.clause = "LIT" -> serialize_value(data.val, ctx)
           [] data.clause = "NOTE" -> NOTE_serialize(data, ctx)
           [] data.clause = "OP" -> OP_serialize(data, ctx)
           [] data.clause = "ORDER" ->
                 LET Let_c(c) ==
                         IF Len(data.by) > 0
                         THEN serialize_lines(data.by, <<>>, write(newline(c), "ORDER BY"))
                         ELSE c
                 IN Let_c(serialize_over(data.over, ctx))
           [] data.clause = "PARTITION" -> PARTITION_serialize(data, ctx)
           [] data.clause = "SELECT" -> SELECT_serialize(data, ctx)
           [] data.clause = "SORT" -> SORT_serialize(data, ctx)
           [] data.clause = "UNION" -> UNION_serialize(data, ctx)
           [] data.clause = "VALUES" -> VALUES_serialize(data, ctx)
           [] data.clause = "VAR" -> VAR_serialize(data, ctx)
           [] data.clause = "WHERE" -> Condition_serialize(data, "WHERE", ctx)
           [] data.clause = "WINDOW" ->
                 LET Let_c(c) ==
                         IF Len(data.args) > 0
                         THEN serialize_lines(data.args, <<>>, write(newline(c), "WINDOW"))
                         ELSE c
                 IN Let_c(serialize_over(data.over, ctx))
           [] data.clause = "WITH" -> WITH_serialize(data, ctx)

\* SerializationContext.render
SQLString(ctx) == [query |-> ctx.buffer, variables |-> ctx.variables]

(***************************************************************************)
(* Construction of one label-carrying node.  lm is the constructor call:   *)
(* "idle" before the call, then the class, the args handed over, and the   *)
(* node built (whose dup field tells that ErrDuplicateLabel was raised).   *)
(***************************************************************************)
LabelPool ==
    {Get("a", Null), Get("b", Null), Agg("a", <<>>, Null), Lit([t |-> "int", i |-> 1]),
     As(0, "b", Get("a", Null)), As(0, "c", From(2, person)),
     Fun("c", <<Get("a", Null)>>)}

RECURSIVE SeqsUpTo(_, _)
SeqsUpTo(S, n) ==
    IF n = 0 THEN {<<>>}
    ELSE LET Let_shorter(shorter) ==
                 shorter \cup {Append(s, x) : s \in {t \in shorter : Len(t) = n - 1}, x \in S}
         IN Let_shorter(SeqsUpTo(S, n - 1))

Idle == [status |-> "idle"]

InitAll ==
    /\ query = Null /\ depth = 0 /\ pc = "start" /\ actx = Null /\ tctx = Null
    /\ node_annotated = Null /\ output_clause = Null
    /\ output = Null /\ err = Null /\ passes = <<>>
    /\ lm = Idle /\ vl = Idle /\ al = Idle /\ sr = Idle /\ fc = Idle

Construct1 ==
    /\ lm.status = "idle"
    /\ \E kind \in LabelMapKinds, args \in SeqsUpTo(LabelPool, MaxArgs) :
          lm' = [status |-> "built", class |-> kind, args |-> args,
                 node |-> NewNode(kind, args)]
    /\ UNCHANGED <<query, depth, pc, actx, tctx, node_annotated, output_clause, output,
                   err, passes, vl, al, sr, fc>>

SpecLabel == InitAll /\ [][Construct1]_vars

\* the labels of the args, in order
Labels(args) == [i \in 1..Len(args) |-> label(args[i])]
SharesLabel(args) ==
    \E i, j \in 1..Len(args) : i # j /\ label(args[i]) = label(args[j])

\* C3: constructing a node that carries a label_map either raises
\* duplicate-label, exactly when two of its args have the same label, or
\* yields a label_map with one entry per arg that maps the label of every
\* arg to the (0-based) index of that arg.
C3_LabelMap ==
    lm.status = "built" =>
        /\ lm.node.dup <=> SharesLabel(lm.args)
        /\ ~lm.node.dup =>
              /\ Len(lm.node.label_map) = Len(lm.args)
              /\ \A i \in 1..Len(lm.args) :
                    DGet(lm.node.label_map, label(lm.args[i]), -1) = i - 1
              /\ DKeySet(lm.node.label_map) = {label(lm.args[i]) : i \in 1..Len(lm.args)}

C3_Witness ==
    /\ lm.status = "built"
    /\ Len(lm.args) = 3
    /\ ~lm.node.dup
    /\ lm.class = "With"

C3_WitnessRaised ==
    /\ lm.status = "built"
    /\ lm.node.dup
    /\ lm.class = "Group"

(***************************************************************************)
(* The queries rendered.  A generated query is a source with up to         *)
(* MaxStages stages chained over it with >>; the stage at position i has   *)
(* id i + 1.  The other queries are written out: joins, unions, recursive  *)
(* queries, CTEs, bound references, and one object used at two places.     *)
(***************************************************************************)
IntLit(i) == Lit(IntVal(i))
BoolLit(b) == Lit(BoolVal(b))
G(name) == Get(name, Null)
G2(outer, name) == Get(name, Get(outer, Null))

Sources ==
    {From(1, person), From(1, Symbol("visit")), From(1, Symbol("missing")),
     From(1, NoSource)}

StageNames ==
    {"where", "where_true", "select", "select_dup", "select_agg", "select_nested",
     "group", "define", "as", "limit", "order", "get"}

Stage(name, id, over) ==
    CASE name = "where" -> Where(id, Fun(">", <<G("year_of_birth"), IntLit(2000)>>), over)
      [] name = "where_true" -> Where(id, BoolLit(TRUE), over)
      [] name = "select" -> Select(id, <<G("person_id"), G("name")>>, over)
      [] name = "select_dup" -> Select(id, <<G("name"), G("name")>>, over)
      [] name = "select_agg" -> Select(id, <<Agg("count", <<>>, Null)>>, over)
      [] name = "select_nested" -> Select(id, <<G2("p", "name")>>, over)
      [] name = "group" -> Group(id, <<G("year_of_birth")>>, over)
      [] name = "define" ->
            Define(id, <<As(0, "name", Fun("upper", <<G("name")>>))>>, over)
      [] name = "as" -> As(id, "p", over)
      [] name = "limit" -> Limit(id, <<1>>, <<>>, over)
      [] name = "order" -> Order(id, <<G("name")>>, over)
      [] name = "get" -> Get("name", over)

RECURSIVE Chain(_, _, _)
Chain(source, stages, id) ==
    IF stages = <<>> THEN source
    ELSE Chain(Stage(Head(stages), id + 1, source), Tail(stages), id + 1)

Generated == {Chain(src, st, 1) : src \in Sources, st \in SeqsUpTo(StageNames, MaxStages)}

Persons == From(1, person)
Visits == From(2, visit)
OnPersonId == Fun("=", <<G("person_id"), G2("v", "person_id")>>)

\* joins: a labelled joinee, an unlabelled one (person_id becomes ambiguous),
\* a scalar field used as a row, a join whose right side nobody reads
QJoin ==
    Select(5, <<G("name"), G2("v", "visit_start_date")>>,
           Join(4, As(3, "v", Visits), OnPersonId, FALSE, FALSE, Persons))
QJoinAmbiguous ==
    Select(4, <<G("person_id")>>, Join(3, Visits, BoolLit(TRUE), FALSE, FALSE, Persons))
\* joins that may be skipped: the joinee is not asked for, is asked for, has
\* an on condition that names no column, is over a base that a Where wraps
QJoinSkipped ==
    Select(5, <<G("name")>>,
           [Join(4, As(3, "v", Visits), OnPersonId, TRUE, FALSE, Persons) EXCEPT !.skip = TRUE])
QJoinSkipCleared ==
    Select(5, <<G("name"), G2("v", "visit_start_date")>>,
           [Join(4, As(3, "v", Visits), OnPersonId, TRUE, FALSE, Persons) EXCEPT !.skip = TRUE])
QJoinSkippedBadOn ==
    Select(5, <<G("name")>>,
           [Join(4, As(3, "v", Visits), Fun("=", <<G("nope"), IntLit(1)>>), TRUE, FALSE,
                 Persons) EXCEPT !.skip = TRUE])
QJoinSkippedWhere ==
    Select(8, <<G("name")>>,
           [Join(7, As(6, "v", Visits), OnPersonId, TRUE, FALSE,
                 Where(5, Fun(">", <<G("year_of_birth"), IntLit(0)>>),
                       Select(4, <<G("name"), G("year_of_birth")>>, Persons)))
               EXCEPT !.skip = TRUE])
QJoinSkippedAll ==
    [Join(4, As(3, "v", Visits), OnPersonId, TRUE, FALSE, Persons) EXCEPT !.skip = TRUE]
QJoinLeftOnly ==
    Select(5, <<G("name")>>,
           Join(4, As(3, "v", Visits), OnPersonId, TRUE, FALSE, Persons))
QJoinGroups ==
    Select(6, <<Agg("count", <<>>, Null)>>,
           Join(5, Group(4, <<G("person_id")>>, Visits), BoolLit(TRUE), FALSE, FALSE,
                Group(3, <<G("year_of_birth")>>, Persons)))
\* references to nested rows
QRowAsScalar == Select(3, <<G("p")>>, As(2, "p", Persons))
QScalarAsRow == Select(2, <<G2("name", "x")>>, Persons)
QNestedOk == Select(3, <<G2("p", "name")>>, As(2, "p", Persons))
\* aggregates
QGroupCount ==
    Select(3, <<G("year_of_birth"), Agg("count", <<>>, Null)>>,
           Group(2, <<G("year_of_birth")>>, Persons))
QPartition ==
    Select(3, <<G("name"), Agg("row_number", <<>>, Null)>>,
           Partition(2, <<G("year_of_birth")>>, <<G("name")>>, Persons))
\* bound references: the handle is a node of the query, or is not
QHandle == Select(3, <<Get("name", Persons)>>, Where(2, BoolLit(TRUE), Persons))
QHandleUndefined == Select(3, <<Get("visit_id", Visits)>>, Persons)
\* a Select that is over nothing, alone and as the target of a handle
QSelectNoOver == Select(1, <<As(0, "x", IntLit(1))>>, Null)
QHandleNoOver == Select(2, <<Get("x", QSelectNoOver)>>, QSelectNoOver)
QHandleAmbiguous ==
    Select(3, <<Get("name", Persons)>>,
           Join(4, Persons, BoolLit(TRUE), FALSE, FALSE, Persons))
\* unions; QAppendShared uses the object Persons at two places
QAppend == Select(4, <<G("person_id")>>, AppendNode(3, <<Visits>>, Persons))
QAppendShared == Select(4, <<G("name")>>, AppendNode(3, <<Persons>>, Persons))
\* CTEs
QWith ==
    With(5, <<As(3, "r", Select(2, <<G("name")>>, Persons))>>,
         Select(6, <<G("name")>>, From(4, Symbol("r"))))
QWithUnlabelled == With(3, <<Persons>>, From(4, Symbol("person")))
QWithTwice ==
    With(5, <<As(3, "r", Persons)>>,
         Join(7, As(8, "s", From(6, Symbol("r"))), BoolLit(TRUE), FALSE, FALSE,
              From(4, Symbol("r"))))
\* the scope of a CTE: an inner With of the same name, the args of the With
\* itself, and after the With or the Iterate has been left
QWithNested ==
    With(7, <<As(3, "c", Persons)>>, With(6, <<As(5, "c", Visits)>>, From(4, Symbol("c"))))
QWithArg == With(5, <<As(3, "visit", From(2, Symbol("visit")))>>, From(4, Symbol("visit")))
QWithArgSelf == With(5, <<As(3, "c", From(2, Symbol("c")))>>, From(4, Symbol("c")))
QWithLeft ==
    AppendNode(7, <<From(6, Symbol("person"))>>,
               With(5, <<As(3, "person", Visits)>>, From(4, Symbol("person"))))
QWithLeftUndefined ==
    AppendNode(7, <<From(6, Symbol("c"))>>,
               With(5, <<As(3, "c", Visits)>>, From(4, Symbol("c"))))
QIterateLeft ==
    AppendNode(7, <<From(6, Symbol("r"))>>,
               Iterate(4, As(3, "r", From(2, Symbol("r"))), Persons))
\* a scope whose body names a table that nothing defines
QWithBodyUndefined ==
    With(5, <<As(3, "c", Persons)>>, From(4, Symbol("missing")))
QIterateBodyUndefined ==
    Iterate(4, As(3, "r", From(2, Symbol("missing"))), Persons)
\* recursive queries
QIterate ==
    Select(6, <<G("name")>>,
           Iterate(5, As(4, "r", Select(3, <<G("name")>>, From(2, Symbol("r")))), Persons))
QIterateSame == Iterate(4, As(3, "r", From(2, Symbol("r"))), Persons)
QIterateWhere ==
    Iterate(5, As(4, "r", Where(3, Fun(">", <<G("year_of_birth"), IntLit(0)>>),
                                From(2, Symbol("r")))),
            Persons)
QIterateGrouped ==
    Select(7, <<Agg("count", <<>>, Null)>>,
           Iterate(6, As(5, "r", Select(4, <<G("year_of_birth")>>, From(3, Symbol("r")))),
                   Group(2, <<G("year_of_birth")>>, Persons)))
QIterateUnlabelled == Iterate(4, Where(3, BoolLit(TRUE), Visits), Persons)
\* the iterator asks the knot for a column only once it is itself asked
QIterateDefine ==
    Iterate(5, As(4, "r", Define(3, <<As(0, "name", Fun("upper", <<G("name")>>))>>,
                                 From(2, Symbol("r")))),
            Persons)
\* a base with the column person_id in both sources of its join
QIterateAmbiguous ==
    Iterate(6, As(5, "r", From(4, Symbol("r"))),
            Join(3, Visits, BoolLit(TRUE), FALSE, FALSE, Persons))
QIterateAmbiguousDefine ==
    Iterate(7, As(6, "r", Define(5, <<As(0, "person_id", IntLit(0))>>,
                                 From(4, Symbol("r")))),
            Join(3, Visits, BoolLit(TRUE), FALSE, FALSE, Persons))
QIterateInWith ==
    With(8, <<As(7, "c", Persons)>>,
         Iterate(6, As(5, "r", Select(4, <<G("name")>>, From(3, Symbol("r")))),
                 From(2, Symbol("c"))))
\* a Where with the condition true over a base that is wrapped
\* chains of Where: over a table, with a condition that is an and, with one
\* that has an and as its second operand, over a Group with a key, over a
\* Select
OldEnough == Fun(">", <<G("year_of_birth"), IntLit(0)>>)
YoungEnough == Fun("<", <<G("year_of_birth"), IntLit(9)>>)
IsFirst == Fun("=", <<G("person_id"), IntLit(1)>>)
IsLate == Fun(">", <<G("person_id"), IntLit(2)>>)
QWhereChain == Where(4, IsFirst, Where(3, YoungEnough, Where(2, OldEnough, Persons)))
QWhereChainAnd == Where(3, IsFirst, Where(2, Fun("and", <<OldEnough, YoungEnough>>), Persons))
QWhereChainRightAnd ==
    Where(3, IsLate,
          Where(2, Fun("and", <<OldEnough, Fun("and", <<YoungEnough, IsFirst>>)>>), Persons))
QWhereChainGroup ==
    Where(4, Fun(">", <<Agg("count", <<>>, Null), IntLit(2)>>),
          Where(3, OldEnough, Group(2, <<G("year_of_birth")>>, Persons)))
QWhereChainSelect ==
    Where(4, YoungEnough, Where(3, OldEnough, Select(2, <<G("year_of_birth")>>, Persons)))
\* a column that is an and or an or: of nothing, of one condition, of the
\* identity literal and a condition, of an and that is the first operand or
\* the second
SelectCondition(condition) == Select(2, <<As(0, "c", condition)>>, Persons)
QAndNone == SelectCondition(Fun("and", <<>>))
QOrNone == SelectCondition(Fun("or", <<>>))
QAndOne == SelectCondition(Fun("and", <<OldEnough>>))
QAndTrueFirst == SelectCondition(Fun("and", <<BoolLit(TRUE), OldEnough>>))
QOrFalseFirst == SelectCondition(Fun("or", <<BoolLit(FALSE), OldEnough>>))
QAndNestedFirst ==
    SelectCondition(Fun("and", <<Fun("and", <<OldEnough, YoungEnough>>), IsFirst>>))
QAndNestedSecond ==
    SelectCondition(Fun("and", <<OldEnough, Fun("and", <<YoungEnough, IsFirst>>)>>))
QOrOfAnd ==
    SelectCondition(Fun("or", <<Fun("and", <<OldEnough, YoungEnough>>), IsFirst>>))
QWhereTrueWrapped ==
    Select(4, <<G("name")>>, Where(3, BoolLit(TRUE), Select(2, <<G("name")>>, Persons)))
\* a correlated subquery, a variable, VALUES, no source
QBind ==
    Select(7, <<G("name")>>,
           Join(6, Bind(5, <<As(0, "pid", G("person_id"))>>,
                        Where(4, Fun("=", <<G("person_id"), Var("pid")>>), Visits)),
                BoolLit(TRUE), TRUE, FALSE, Persons))
QBindUnowned ==
    Bind(3, <<As(0, "pid", G("person_id"))>>,
         Where(2, Fun("=", <<G("person_id"), Var("pid")>>), Persons))
QVar == Where(2, Fun("=", <<G("name"), Var("who")>>), Persons)
\* variables bound by Bind: shadowed by an inner Bind, used in the args of
\* an inner Bind, two names and a free one, used outside the Bind, bound
\* in two args of one Bind, used in a CTE and in an Iterate under the Bind
BindX(id, value, over) == Bind(id, <<As(0, "x", value)>>, over)
SelectVarX == Select(2, <<As(0, "c0", Var("x"))>>, Persons)
WhereIdIs(id, value, over) == Where(id, Fun("=", <<G("person_id"), value>>), over)
QVarSelected == SelectVarX
QBindSelected == BindX(3, IntLit(1), SelectVarX)
QBindShadow == BindX(4, IntLit(1), BindX(3, IntLit(2), SelectVarX))
QBindOuterArg ==
    BindX(4, IntLit(1), BindX(3, Fun("+", <<Var("x"), IntLit(1)>>), SelectVarX))
QBindTwoNames ==
    BindX(4, IntLit(1),
          Bind(3, <<As(0, "y", IntLit(2))>>,
               Select(2, <<As(0, "c0", Var("x")), As(0, "c1", Var("y")),
                           As(0, "c2", Var("z"))>>, Persons)))
QBindOutside ==
    Select(4, <<As(0, "d", Var("x")), G("c0")>>, BindX(3, IntLit(1), SelectVarX))
QBindTwoArgs ==
    Bind(3, <<As(0, "x", IntLit(1)), As(0, "y", Var("x"))>>,
         Select(2, <<As(0, "a", Var("x")), As(0, "b", Var("y"))>>, Persons))
QBindWith ==
    BindX(7, IntLit(1),
          With(6, <<As(3, "r", WhereIdIs(2, Var("x"), Persons))>>,
               WhereIdIs(5, Var("x"), From(4, Symbol("r")))))
QWithBind ==
    With(7, <<As(4, "r", BindX(3, IntLit(1), WhereIdIs(2, Var("x"), Persons)))>>,
         WhereIdIs(6, Var("x"), From(5, Symbol("r"))))
QBindIterate ==
    BindX(7, IntLit(1),
          Iterate(6, As(5, "r", WhereIdIs(4, Var("x"), From(3, Symbol("r")))),
                  WhereIdIs(2, Var("x"), Persons)))
\* a node that cannot be translated (a Group read as one row named p): under
\* a Bind, and in the condition of a Where; a correlated subquery with a
\* Bind, followed by a column of the base
GroupAsRow(base) == As(4, "p", Group(3, <<G("year_of_birth")>>, base))
QBindRaises == BindX(5, IntLit(1), GroupAsRow(Persons))
QWhereRaises ==
    Where(5, Fun("=", <<G("name"), GroupAsRow(From(2, person))>>), Persons)
QSelectBindThen ==
    Select(5, <<As(0, "c", BindX(4, IntLit(1),
                                 Select(3, <<As(0, "c0", Var("x"))>>, From(2, person)))),
                G("name")>>, Persons)
QValues ==
    Select(2, <<G("x")>>,
           From(1, ValuesTable(<<"x", "y">>,
                               <<(<<IntVal(1), StrVal("a")>>),
                                 (<<IntVal(2), StrVal("b")>>)>>)))
QNothing == Select(2, <<As(0, "one", IntLit(1))>>, From(1, NoSource))
\* two rows after the first one
QLimitOffset == Limit(2, <<2>>, <<1>>, Persons)

Written ==
    {QJoin, QJoinAmbiguous, QJoinSkipped, QJoinSkipCleared, QJoinSkippedBadOn,
     QJoinSkippedWhere, QJoinSkippedAll, QJoinLeftOnly, QJoinGroups, QRowAsScalar, QScalarAsRow,
     QNestedOk, QGroupCount, QPartition, QHandle, QHandleUndefined, QHandleAmbiguous,
     QSelectNoOver, QHandleNoOver,
     QAppend, QAppendShared, QWith, QWithUnlabelled, QWithTwice, QWithNested, QWithArg,
     QWithArgSelf, QWithLeft, QWithLeftUndefined, QIterateLeft, QWithBodyUndefined,
     QIterateBodyUndefined, QIterate, QIterateSame,
     QIterateWhere, QIterateGrouped, QIterateUnlabelled, QIterateDefine,
     QIterateAmbiguous, QIterateAmbiguousDefine,
     QIterateInWith, QAndNone, QOrNone, QAndOne, QAndTrueFirst, QOrFalseFirst,
     QAndNestedFirst, QAndNestedSecond, QOrOfAnd, QWhereTrueWrapped, QWhereChain, QWhereChainAnd,
     QWhereChainRightAnd, QWhereChainGroup, QWhereChainSelect, QVarSelected, QBindSelected, QBindShadow, QBindOuterArg, QBindTwoNames, QBindOutside,
     QBindTwoArgs, QBindWith, QWithBind, QBindIterate,
     QBindRaises, QWhereRaises, QSelectBindThen,
     QBind, QBindUnowned, QVar, QValues,
     QNothing, QLimitOffset}

Corpus == Generated \cup Written

(***************************************************************************)
(* render.  The caller builds the query, which raises ErrDuplicateLabel    *)
(* in a constructor or gives the node, and calls render(node, depth).      *)
(* Every pass is one step; pc names the pass to run next, "returned" once  *)
(* render has returned and "raised" once an exception left it.             *)
(***************************************************************************)
ANNOTATE == 1
RESOLVE == 2
LINK == 3
TRANSLATE == 4
SERIALIZE == 5
RenderDepth == {ANNOTATE, RESOLVE, LINK, TRANSLATE, SERIALIZE}

\* the nodes directly under a user node
Kids(node) ==
    CASE node.kind \in {"Get", "As", "Sort", "Limit"} -> <<node.over>>
      [] node.kind = "Agg" -> node.args \o <<node.filter_, node.over>>
      [] node.kind = "Fun" -> node.args
      [] node.kind = "Where" -> <<node.condition, node.over>>
      [] node.kind \in {"Order", "Group"} -> node.by \o <<node.over>>
      [] node.kind \in {"Append", "Select", "Define", "Bind", "With"} ->
            node.args \o <<node.over>>
      [] node.kind = "Iterate" -> <<node.iterator, node.over>>
      [] node.kind = "Join" -> <<node.joinee, node.on, node.over>>
      [] node.kind = "Partition" -> node.by \o node.order_by \o <<node.over>>
      [] OTHER -> <<>>

\* some constructor called while the query was built raised ErrDuplicateLabel
RECURSIVE RaisedDuplicateLabel(_)
RaisedDuplicateLabel(node) ==
    \/ node.kind \in LabelMapKinds /\ node.dup
    \/ \E i \in 1..Len(Kids(node)) : RaisedDuplicateLabel(Kids(node)[i])

Others == <<lm, vl, al, sr, fc>>

Construct ==
    /\ pc = "start"
    /\ \E q \in Corpus, d \in RenderDepth :
          /\ query' = q
          /\ depth' = d
          /\ IF RaisedDuplicateLabel(q)
             THEN /\ pc' = "raised"
                  /\ err' = [kind |-> "duplicate-label", name |-> "", at |-> "construct"]
             ELSE /\ pc' = "annotate"
                  /\ err' = err
    /\ UNCHANGED <<actx, tctx, node_annotated, output_clause, output, passes>>
    /\ UNCHANGED Others

\* a faulty variant of AfterPass, which compares with >= and so runs one
\* pass more than depth names
AfterPassInclusive(level, next) == IF ~(depth >= level) THEN "returned" ELSE next

\* where render goes once the pass at level has finished: it returns when
\* "not depth > level", and runs the next pass otherwise
AfterPass(level, next) == IF ~(depth > level) THEN "returned" ELSE next

RaisedIn(pass, ctx) == [kind |-> ctx.err.kind, name |-> ctx.err.name, at |-> pass]

Annotate ==
    /\ pc = "annotate"
    /\ passes' = Append(passes, "annotate")
    /\ LET Let_r(r) ==
               /\ actx' = r.ctx
               /\ node_annotated' = r.out
               /\ IF Failed(r.ctx)
                  THEN pc' = "raised" /\ err' = RaisedIn("annotate", r.ctx) /\ output' = output
                  ELSE /\ pc' = AfterPass(ANNOTATE, "resolve")
                       /\ err' = err
                       /\ output' = IF pc' = "returned" THEN r.out ELSE output
       IN Let_r(annotate(query, AnnotateContext))
    /\ UNCHANGED <<query, depth, tctx, output_clause>>
    /\ UNCHANGED Others

Resolve ==
    /\ pc = "resolve"
    /\ passes' = Append(passes, "resolve")
    /\ LET Let_c(c) ==
               /\ actx' = c
               /\ IF Failed(c)
                  THEN pc' = "raised" /\ err' = RaisedIn("resolve", c) /\ output' = output
                  ELSE /\ pc' = AfterPass(RESOLVE, "link")
                       /\ err' = err
                       /\ output' = IF pc' = "returned" THEN node_annotated ELSE output
       IN Let_c(resolve_toplevel(actx))
    /\ UNCHANGED <<query, depth, tctx, node_annotated, output_clause>>
    /\ UNCHANGED Others

\* a faulty variant of Link, in which an exception of link_toplevel does not
\* leave render
LinkUnchecked ==
    /\ pc = "link"
    /\ passes' = Append(passes, "link")
    /\ actx' = link_toplevel(actx)
    /\ pc' = AfterPass(LINK, "translate")
    /\ err' = err
    /\ output' = IF pc' = "returned" THEN node_annotated ELSE output
    /\ UNCHANGED <<query, depth, tctx, node_annotated, output_clause>>
    /\ UNCHANGED Others

Link ==
    /\ pc = "link"
    /\ passes' = Append(passes, "link")
    /\ LET Let_c(c) ==
               /\ actx' = c
               /\ IF Failed(c)
                  THEN pc' = "raised" /\ err' = RaisedIn("link", c) /\ output' = output
                  ELSE /\ pc' = AfterPass(LINK, "translate")
                       /\ err' = err
                       /\ output' = IF pc' = "returned" THEN node_annotated ELSE output
       IN Let_c(link_toplevel(actx))
    /\ UNCHANGED <<query, depth, tctx, node_annotated, output_clause>>
    /\ UNCHANGED Others

Translate ==
    /\ pc = "translate"
    /\ passes' = Append(passes, "translate")
    /\ LET Let_r(r) ==
               /\ tctx' = r.ctx
               /\ IF Failed(r.ctx)
                  THEN /\ pc' = "raised"
                       /\ err' = RaisedIn("translate", r.ctx)
                       /\ UNCHANGED <<output_clause, output>>
                  ELSE /\ pc' = AfterPass(TRANSLATE, "serialize")
                       /\ err' = err
                       /\ output_clause' = r.out
                       /\ output' = IF pc' = "returned" THEN r.out ELSE output
       IN Let_r(translate_toplevel(node_annotated, TranslateContext(actx)))
    /\ UNCHANGED <<query, depth, actx, node_annotated>>
    /\ UNCHANGED Others

Serialize ==
    /\ pc = "serialize"
    /\ passes' = Append(passes, "serialize")
    /\ LET Let_c(c) ==
               IF Failed(c)
               THEN pc' = "raised" /\ err' = RaisedIn("serialize", c) /\ output' = output
               ELSE pc' = "returned" /\ err' = err /\ output' = SQLString(c)
       IN Let_c(serialize(output_clause, SerializationContext(dialect_default)))
    /\ UNCHANGED <<query, depth, actx, tctx, node_annotated, output_clause>>
    /\ UNCHANGED Others

Next == Construct \/ Annotate \/ Resolve \/ Link \/ Translate \/ Serialize

Spec == InitAll /\ [][Next]_vars

PassOrder == <<"annotate", "resolve", "link", "translate", "serialize">>

SQLClauseKinds ==
    {"AGG", "AS", "CASE", "FROM", "FUN", "GROUP", "HAVING", "ID", "JOIN", "KW", "LIMIT",
     "LIT", "NOTE", "OP", "ORDER", "PARTITION", "SELECT", "SORT", "UNION", "VALUES",
     "VAR", "WHERE", "WINDOW", "WITH"}

\* C1: render runs the passes in the order annotate, resolve, link,
\* translate, serialize, one after the other, and stops after the pass named
\* by depth; it returns the annotated root box for the depths Annotate,
\* Resolve and Link, the clause tree for Translate and the SQLString for
\* Serialize.
C1_PassOrder ==
    /\ Len(passes) <= Len(PassOrder)
    /\ passes = SubSeq(PassOrder, 1, Len(passes))
    /\ pc \in {PassOrder[i] : i \in 1..Len(PassOrder)} => pc = PassOrder[Len(passes) + 1]
    /\ pc = "returned" =>
          /\ Len(passes) = depth
          /\ depth \in {ANNOTATE, RESOLVE, LINK} =>
                /\ output = node_annotated
                /\ output = BoxRef(Len(actx.boxes))
                /\ actx.boxes[output.idx].origin = query.id
          /\ depth = TRANSLATE =>
                /\ output = output_clause
                /\ output.clause \in SQLClauseKinds
          /\ depth = SERIALIZE =>
                /\ DOMAIN output = {"query", "variables"}
                /\ output.query # ""

C1_Witness ==
    /\ pc = "returned"
    /\ depth = SERIALIZE
    /\ passes = PassOrder
    /\ output.variables # <<>>

ReferenceErrors ==
    {"undefined-name", "ambiguous-name", "undefined-handle", "ambiguous-handle",
     "unexpected-row-type", "unexpected-scalar-type", "unexpected-agg", "ambiguous-agg"}

\* C2: a diagnostic is raised where it is detected: duplicate-label when the
\* query is constructed, ill-formed and undefined-table-ref by annotate, the
\* reference errors by link, after annotate and resolve have completed; the
\* exception leaves render at once, so that no later pass runs and render
\* returns nothing.
C2_Diagnostics ==
    /\ (pc = "raised") <=> (err # Null)
    /\ (query # Null /\ RaisedDuplicateLabel(query)) =>
          /\ pc = "raised" /\ err.kind = "duplicate-label"
    /\ (actx # Null /\ actx.err # Null) =>
          /\ pc = "raised" /\ err.kind = actx.err.kind
    /\ (tctx # Null /\ tctx.err # Null) => pc = "raised"
    /\ err # Null =>
          /\ output = Null
          /\ IF err.at = "construct" THEN passes = <<>>
             ELSE passes # <<>> /\ passes[Len(passes)] = err.at
          /\ err.kind = "duplicate-label" => err.at = "construct"
          /\ err.kind \in {"ill-formed", "undefined-table-ref"} => err.at = "annotate"
          /\ err.kind \in ReferenceErrors =>
                /\ err.at = "link"
                /\ passes = <<"annotate", "resolve", "link">>

C2_Witness ==
    /\ pc = "raised"
    /\ err.kind = "ambiguous-name"
    /\ passes = <<"annotate", "resolve", "link">>
    /\ depth = SERIALIZE

\* link has completed without raising
Linked == Len(passes) >= 3 /\ ~(err # Null /\ err.at = "link")

\* validate(box.typ, ref) succeeds for every reference of every box
RefsValid ==
    \A i \in 1..Len(actx.boxes) : \A j \in 1..Len(actx.boxes[i].refs) :
        validate(actx.boxes[i].typ, actx.boxes[i].refs[j]) = Null

\* C5: after link has completed without error, validate(b.typ, ref) succeeds
\* for every box b of the annotation context and every ref of b.refs, the
\* references a node downstream forwarded into b included.
C5_RefsValid == Linked => RefsValid

\* translate has completed without raising
Translated == Len(passes) >= 4 /\ ~(err # Null /\ err.at = "translate")

\* the entries of cte_map that assemble(Knot) registered, and those of With
KnotCTEs ==
    {i \in 1..Len(tctx.cte_map) : actx.boxes[tctx.cte_map[i].key.idx].over.kind = "Knot"}
WithCTEs == (1..Len(tctx.cte_map)) \ KnotCTEs

\* C8: the top-level clause that translate gives is a WITH marked recursive
\* exactly when a Knot was registered in cte_map; when only With nodes
\* registered CTEs it is a WITH that is not recursive, and when a Knot was
\* registered it is a WITH.
C8_Recursive ==
    Translated =>
        /\ (output_clause.clause = "WITH" /\ output_clause.recursive) <=> KnotCTEs # {}
        /\ (KnotCTEs = {} /\ WithCTEs # {}) =>
              /\ output_clause.clause = "WITH" /\ ~output_clause.recursive
              /\ Len(output_clause.args) = Cardinality(WithCTEs)
        /\ (KnotCTEs = {} /\ WithCTEs = {}) => output_clause.clause # "WITH"

C8_Witness ==
    /\ Translated
    /\ KnotCTEs # {}
    /\ WithCTEs # {}
    /\ output_clause.clause = "WITH" /\ output_clause.recursive

\* annotate has completed without raising
Annotated == Len(passes) >= 1 /\ ~(err # Null /\ err.at = "annotate")

\* the nodes of the original tree that annotate is called with, in the order
\* of the calls: Boxed(node, FALSE) for a node at a tabular place, and
\* Boxed(node, TRUE) for a node at a scalar place, where the over of a Get or
\* an Agg is a handle and is not annotated
RECURSIVE Boxed(_, _)
RECURSIVE BoxedList(_, _)
Boxed(node, scalar) ==
    IF node = Null THEN <<>>
    ELSE IF scalar /\ node.kind \notin TabularKinds
    THEN CASE node.kind \in {"As", "Sort"} -> Boxed(node.over, TRUE)
           [] node.kind = "Bind" -> Boxed(node.over, FALSE) \o BoxedList(node.args, TRUE)
           [] node.kind = "Agg" -> BoxedList(node.args \o <<node.filter_>>, TRUE)
           [] node.kind = "Fun" -> BoxedList(node.args, TRUE)
           [] OTHER -> <<>>
    ELSE <<node.id>> \o
         CASE node.kind \in {"Append", "With"} -> BoxedList(<<node.over>> \o node.args, FALSE)
           [] node.kind = "Iterate" -> BoxedList(<<node.over, node.iterator>>, FALSE)
           [] node.kind = "Join" ->
                 BoxedList(<<node.over, node.joinee>>, FALSE) \o Boxed(node.on, TRUE)
           [] node.kind \in {"As", "Limit"} -> Boxed(node.over, FALSE)
           [] node.kind \in {"Bind", "Define", "Select"} ->
                 Boxed(node.over, FALSE) \o BoxedList(node.args, TRUE)
           [] node.kind \in {"Group", "Order"} ->
                 Boxed(node.over, FALSE) \o BoxedList(node.by, TRUE)
           [] node.kind = "Partition" ->
                 Boxed(node.over, FALSE) \o BoxedList(node.by \o node.order_by, TRUE)
           [] node.kind = "Where" -> Boxed(node.over, FALSE) \o Boxed(node.condition, TRUE)
           [] OTHER -> <<>>
BoxedList(nodes, scalar) ==
    IF nodes = <<>> THEN <<>>
    ELSE Boxed(Head(nodes), scalar) \o BoxedList(Tail(nodes), scalar)

Count(seq, x) == Cardinality({i \in 1..Len(seq) : seq[i] = x})

\* the boxes whose over is the rewritten form of the node id; the box of the
\* Knot that annotate makes for an Iterate is not one of them
BoxesFor(id) ==
    {i \in 1..Len(actx.boxes) :
        /\ actx.boxes[i].origin = id
        /\ actx.boxes[i].over # Null
        /\ actx.boxes[i].over.kind # "Knot"}

ScalarKinds == {"Get", "Agg", "Fun", "Lit", "Var", "Sort", "NameBound", "HandleBound"}

\* no box is over a scalar node; an As under a box is the tabular one
NoScalarBoxed ==
    \A i \in 1..Len(actx.boxes) :
        \/ actx.boxes[i].over = Null
        \/ /\ actx.boxes[i].over.kind \notin ScalarKinds
           /\ actx.boxes[i].over.kind = "As" => actx.boxes[i].over.over.kind = "Box"

\* C9, as the code has it: after annotate every place of the original tree
\* that holds a tabular node has one box, so that a node has as many boxes
\* as there are places annotate meets it at (two for an object used at two
\* places, none for a node that is only the handle of a Get), and no scalar
\* node is the over of a box.
C9_BoxPerPlace ==
    Annotated =>
        /\ \A i \in 1..Len(Boxed(query, FALSE)) :
              Cardinality(BoxesFor(Boxed(query, FALSE)[i]))
                 = Count(Boxed(query, FALSE), Boxed(query, FALSE)[i])
        /\ \A i \in 1..Len(actx.boxes) :
              actx.boxes[i].over # Null => Count(Boxed(query, FALSE), actx.boxes[i].origin) > 0
        /\ NoScalarBoxed

C9_Witness ==
    /\ Annotated
    /\ \E i \in 1..Len(Boxed(query, FALSE)) :
          /\ Count(Boxed(query, FALSE), Boxed(query, FALSE)[i]) = 2
          /\ Cardinality(BoxesFor(Boxed(query, FALSE)[i])) = 2

\* C9, as stated: after annotate every tabular node of the original tree
\* has exactly one box, also when the object is used at several places, and
\* no scalar node is the over of a box.
C9_OneBoxPerNode ==
    Annotated =>
        /\ \A i \in 1..Len(Boxed(query, FALSE)) :
              Cardinality(BoxesFor(Boxed(query, FALSE)[i])) = 1
        /\ NoScalarBoxed

\* resolve has completed without raising
Resolved == Len(passes) >= 2 /\ ~(err # Null /\ err.at = "resolve")

\* the boxes over a Knot
Knots == {i \in 1..Len(actx.boxes) : actx.boxes[i].over # Null /\ actx.boxes[i].over.kind = "Knot"}

\* the boxes of the iterator of the knot at k that are over a FromReference
\* to that knot
KnotReferences(k) ==
    {j \in SeqToSet(actx.boxes[k].over.iterator_boxes) :
        /\ actx.boxes[j].over # Null
        /\ actx.boxes[j].over.kind = "FromReference"
        /\ actx.boxes[j].over.over = BoxRef(k)}

\* C10: after resolve has completed, the row type of the box of every Knot
\* is a subset of the row type of the box of its iterator, and every
\* FromReference to the knot in the iterator has the row that the final type
\* of the knot gives under its name.
C10_KnotFixedPoint ==
    Resolved =>
        \A k \in Knots :
            /\ is_subset(actx.boxes[k].typ.row,
                         box_type(actx, actx.boxes[k].over.iterator).row)
            /\ \A j \in KnotReferences(k) :
                  /\ actx.boxes[j].typ.name = actx.boxes[j].over.name
                  /\ actx.boxes[j].typ.row =
                        DGet(actx.boxes[k].typ.row.fields, actx.boxes[j].over.name, Null)

\* the type of the knot was narrowed: its row has fewer fields than the base
C10_Witness ==
    /\ Resolved
    /\ \E k \in Knots :
          /\ KnotReferences(k) # {}
          /\ actx.boxes[k].typ.row.fields[1].val
                # box_type(actx, actx.boxes[k].over.over).row

(***************************************************************************)
(* validate on its own: a box type and a reference drawn from bounded      *)
(* sets.  The rows nest a row under the field "a" up to MaxChain deep; the *)
(* references are what annotate builds: an optional HandleBound, then up   *)
(* to MaxChain NameBound links, then a Get or an Agg.                      *)
(***************************************************************************)
LeafRow == RowType(<<[key |-> "a", val |-> ScalarType]>>, EmptyType)
Groups == {EmptyType, AmbiguousType, LeafRow}

FieldsOf(a, b) ==
    (IF a = EmptyType THEN <<>> ELSE <<[key |-> "a", val |-> a]>>)
        \o (IF b = EmptyType THEN <<>> ELSE <<[key |-> "b", val |-> b]>>)

RECURSIVE RowsOfDepth(_)
RowsOfDepth(n) ==
    IF n = 0
    THEN {RowType(FieldsOf(a, b), g) :
            a \in {EmptyType, ScalarType, AmbiguousType}, b \in {EmptyType, ScalarType},
            g \in Groups}
    ELSE {RowType(FieldsOf(a, EmptyType), g) :
            a \in {EmptyType, ScalarType, AmbiguousType} \cup RowsOfDepth(n - 1),
            g \in Groups}

HandleMapsOf(row) ==
    {<<>>, <<[key |-> 0, val |-> AmbiguousType]>>, <<[key |-> 0, val |-> row]>>,
     <<[key |-> 1, val |-> LeafRow]>>}

BoxTypes == {BoxType("q", row, hm) : row \in RowsOfDepth(MaxChain), hm \in HandleMapsOf(LeafRow)}
              \cup {add_handle(BoxType("q", row, <<>>), 0) : row \in RowsOfDepth(MaxChain)}

RECURSIVE ChainsUpTo(_)
ChainsUpTo(n) ==
    IF n = 0 THEN {NewGet(1, "a"), NewGet(1, "b"),
                   [kind |-> "Agg", oid |-> 1, name |-> "count", args |-> <<>>,
                    distinct |-> FALSE, filter_ |-> Null, over |-> Null]}
    ELSE ChainsUpTo(n - 1)
            \cup {NameBound(2, r, name) : r \in ChainsUpTo(n - 1), name \in {"a", "b"}}

Refs == ChainsUpTo(MaxChain) \cup {HandleBound(3, r, h) : r \in ChainsUpTo(MaxChain), h \in {0, 1}}

Validate ==
    /\ vl.status = "idle"
    /\ \E t \in BoxTypes, ref \in Refs :
          vl' = [status |-> "done", typ |-> t, ref |-> ref, raised |-> validate(t, ref)]
    /\ UNCHANGED <<query, depth, pc, actx, tctx, node_annotated, output_clause, output,
                   err, passes, lm, al, sr, fc>>

SpecValidate == InitAll /\ [][Validate]_vars

\* what the claim says of a reference against a row: the names of the chain
\* are followed through the fields while they are rows; the first field that
\* is no row, or the terminal node, decides
RECURSIVE ChainNames(_)
ChainNames(ref) ==
    IF ref.kind = "NameBound" THEN <<ref.name>> \o ChainNames(ref.over) ELSE <<>>
RECURSIVE Terminal(_)
Terminal(ref) == IF ref.kind = "NameBound" THEN Terminal(ref.over) ELSE ref

\* the type met at step k of the chain (k = 0: the row itself)
RECURSIVE TypeAt(_, _, _)
TypeAt(row, names, k) ==
    IF k = 0 THEN row
    ELSE LET Let_up(up) ==
                 IF up.k # "Row" THEN EmptyType
                 ELSE DGet(up.fields, names[k], EmptyType)
         IN Let_up(TypeAt(row, names, k - 1))

ExpectedOnRow(row, ref) ==
    LET Let_ft(names, term, fails, first, last, ft) ==
            IF fails # {}
            THEN CASE TypeAt(row, names, first) = EmptyType -> "undefined-name"
                   [] TypeAt(row, names, first) = ScalarType -> "unexpected-scalar-type"
                   [] TypeAt(row, names, first) = AmbiguousType -> "ambiguous-name"
            ELSE IF term.kind = "Get"
            THEN CASE ft = ScalarType -> "ok"
                   [] ft = EmptyType -> "undefined-name"
                   [] ft = AmbiguousType -> "ambiguous-name"
                   [] ft.k = "Row" -> "unexpected-row-type"
            ELSE CASE last.group.k = "Row" -> "ok"
                   [] last.group = EmptyType -> "unexpected-agg"
                   [] last.group = AmbiguousType -> "ambiguous-agg"
        Let_last(names, term, fails, first, last) ==
            Let_ft(names, term, fails, first, last, DGet(last.fields, term.name, EmptyType))
        Let_first(names, term, fails, first) ==
            Let_last(names, term, fails, first, TypeAt(row, names, Len(names)))
        Let_fails(names, term, fails) ==
            Let_first(names, term, fails, CHOOSE k \in fails : \A j \in fails : k <= j)
        Let_term(names, term) ==
            Let_fails(names, term, {k \in 1..Len(names) : TypeAt(row, names, k).k # "Row"})
        Let_names(names) ==
            Let_term(names, Terminal(ref))
    IN Let_names(ChainNames(ref))

Expected(t, ref) ==
    IF ref.kind = "HandleBound"
    THEN IF ~DHas(t.handle_map, ref.handle) THEN "undefined-handle"
         ELSE IF DGet(t.handle_map, ref.handle, EmptyType) = AmbiguousType
         THEN "ambiguous-handle"
         ELSE ExpectedOnRow(DGet(t.handle_map, ref.handle, EmptyType), ref.over)
    ELSE ExpectedOnRow(t.row, ref)

\* C4: validate(typ, ref) succeeds exactly when the chain of the reference
\* walks through nested row fields to a Get of a scalar field or to an Agg at
\* a row whose group is a row; otherwise it raises the error of the first
\* failing step (undefined-name, ambiguous-name, unexpected-scalar-type,
\* unexpected-row-type, unexpected-agg, ambiguous-agg, undefined-handle,
\* ambiguous-handle).
C4_Validate ==
    vl.status = "done" =>
        IF vl.raised = Null THEN Expected(vl.typ, vl.ref) = "ok"
        ELSE vl.raised.kind = Expected(vl.typ, vl.ref)

C4_Witness ==
    /\ vl.status = "done"
    /\ vl.ref.kind = "HandleBound"
    /\ Len(ChainNames(vl.ref.over)) = 2
    /\ vl.raised # Null
    /\ vl.raised.kind = "unexpected-agg"

(***************************************************************************)
(* allocate_alias on its own: the calls made on one TranslateContext.       *)
(***************************************************************************)
BaseNames == {"person", "person_1", "person_1_1", "visit", "union"}

NewTranslateContext ==
    /\ al.status = "idle"
    /\ al' = [status |-> "open", ctx |-> TranslateContext(AnnotateContext),
              calls |-> <<>>, returned |-> <<>>]
    /\ UNCHANGED <<query, depth, pc, actx, tctx, node_annotated, output_clause, output,
                   err, passes, lm, vl, sr, fc>>

AllocateAlias ==
    /\ al.status = "open"
    /\ Len(al.calls) < MaxCalls
    /\ \E name \in BaseNames :
          LET Let_r(r) ==
                  al' = [al EXCEPT !.ctx = r.ctx, !.calls = Append(@, name),
                                   !.returned = Append(@, r.out)]
          IN Let_r(allocate_alias(al.ctx, name))
    /\ UNCHANGED <<query, depth, pc, actx, tctx, node_annotated, output_clause, output,
                   err, passes, lm, vl, sr, fc>>

SpecAlias == InitAll /\ [][NewTranslateContext \/ AllocateAlias]_vars

\* the number of calls for the base name of call k among the calls 1..k
CallNo(calls, k) == Cardinality({j \in 1..k : calls[j] = calls[k]})

\* C6: on one TranslateContext the k-th call of allocate_alias for a base
\* name returns {name}_{k}, and no two calls, for the same base name or for
\* different ones, return the same alias.
C6_Aliases ==
    al.status = "open" =>
        /\ \A k \in 1..Len(al.calls) :
              al.returned[k] = al.calls[k] \o "_" \o ToString(CallNo(al.calls, k))
        /\ \A j, k \in 1..Len(al.returned) : j # k => al.returned[j] # al.returned[k]

C6_Witness ==
    /\ al.status = "open"
    /\ Len(al.calls) = 4
    /\ al.calls[1] = "person" /\ al.calls[2] = "person_1" /\ al.calls[3] = "person"
    /\ al.returned[4] = "person_1_2"

(***************************************************************************)
(* VAR clauses on their own: a sequence of VARs serialized into one         *)
(* SerializationContext.                                                   *)
(***************************************************************************)
VarNames == {"a", "b", "c"}
VarPrefixes == {"?", "$", ":"}

NewSerializationContext ==
    /\ sr.status = "idle"
    /\ \E style \in VarStyle, prefix \in VarPrefixes :
          sr' = [status |-> "open", names |-> <<>>,
                 ctx |-> SerializationContext(SQLDialect("d", style, prefix))]
    /\ UNCHANGED <<query, depth, pc, actx, tctx, node_annotated, output_clause, output,
                   err, passes, lm, vl, al, fc>>

\* one more VAR of the clause tree is serialized, after a separator
SerializeVar ==
    /\ sr.status = "open"
    /\ Len(sr.names) < MaxVars
    /\ \E name \in VarNames :
          sr' = [sr EXCEPT !.names = Append(@, name),
                           !.ctx = VAR_serialize(VAR(name), write(@, " "))]
    /\ UNCHANGED <<query, depth, pc, actx, tctx, node_annotated, output_clause, output,
                   err, passes, lm, vl, al, fc>>

SpecVar == InitAll /\ [][NewSerializationContext \/ SerializeVar]_vars

\* the names in the order of their first occurrence
RECURSIVE Distinct(_)
Distinct(names) ==
    IF names = <<>> THEN <<>>
    ELSE LET Let_last(front, last) ==
                 IF \E i \in 1..Len(front) : front[i] = last THEN front ELSE Append(front, last)
             Let_front(front) ==
                 Let_last(front, names[Len(names)])
         IN Let_front(Distinct(SubSeq(names, 1, Len(names) - 1)))

PositionIn(names, name) == CHOOSE i \in 1..Len(names) : names[i] = name

\* the text the claim gives for the occurrences names[1..n], each after " "
RECURSIVE Placeholders(_, _, _, _)
Placeholders(style, prefix, names, n) ==
    IF n = 0 THEN ""
    ELSE Placeholders(style, prefix, names, n - 1) \o " " \o prefix
            \o (IF style = POSITIONAL THEN ""
                ELSE IF style = NAMED THEN names[n]
                ELSE ToString(PositionIn(Distinct(names), names[n])))

\* C7: positional style: variables has one entry per occurrence, in the order
\* of emission, and the placeholder is the bare prefix.  Numbered style:
\* variables has every distinct name once, in the order of first occurrence,
\* and every occurrence is written as the prefix and 1 + the position of its
\* name, so that variables[idx - 1] (0-based) is the name behind placeholder
\* idx.  Named style: the placeholder is the prefix and the name.
C7_Variables ==
    sr.status = "open" =>
        LET style == sr.ctx.dialect.var_style
            prefix == sr.ctx.dialect.var_prefix IN
        /\ sr.ctx.variables = IF style = POSITIONAL THEN sr.names ELSE Distinct(sr.names)
        /\ sr.ctx.buffer = Placeholders(style, prefix, sr.names, Len(sr.names))

C7_Witness ==
    /\ sr.status = "open"
    /\ sr.ctx.dialect.var_style = NUMBERED
    /\ sr.names = <<"a", "b", "a", "c">>
    /\ sr.ctx.buffer = " $1 $2 $1 $3"
    /\ sr.ctx.variables = <<"a", "b", "c">>

(***************************************************************************)
(* The loop of link(Knot), looked at from the context that link leaves.    *)
(***************************************************************************)
\* the targets of the references that the box at k holds
Overs(k) == {actx.boxes[k].refs[i].over : i \in 1..Len(actx.boxes[k].refs)}

\* the box of the knot at k after one more pass of the loop body: the boxes
\* of the iterator are cleared, the box of the iterator is handed the
\* references of the knot and the boxes of the iterator are linked again
Relinked(k) ==
    LET node == actx.boxes[k].over IN
    link_boxes(Reversed(node.iterator_boxes),
               [actx EXCEPT !.boxes = [ClearRefs(@, node.iterator_boxes) EXCEPT
                                          ![node.iterator.idx].refs = actx.boxes[k].refs]])

\* the boxes over the IntIterate that reads the knot at k
IterateBoxes(k) ==
    {j \in 1..Len(actx.boxes) :
        /\ actx.boxes[j].over # Null
        /\ actx.boxes[j].over.kind = "IntIterate"
        /\ actx.boxes[j].over.over = BoxRef(k)}

\* C11: link of a Knot terminates (the loop is never cut), and when link has
\* completed the box of every Knot is at a fixed point: one more pass over
\* the boxes of the iterator with the references of the knot puts into the
\* box of the knot no reference to a target it does not hold already, and
\* the target of every reference of the knot is among the references of the
\* box of the base.
C11_KnotLinked ==
    /\ ~(err # Null /\ err.kind = "diverged" /\ err.at = "link")
    /\ Linked =>
          \A k \in Knots :
             LET again == Relinked(k) IN
             /\ ~Failed(again)
             /\ \A i \in 1..Len(again.boxes[k].refs) :
                   /\ again.boxes[k].refs[i].kind = "NameBound"
                   /\ again.boxes[k].refs[i].over \in Overs(k)
             /\ \A i \in 1..Len(actx.boxes[k].refs) :
                   \E j \in 1..Len(actx.boxes[actx.boxes[k].over.over.idx].refs) :
                      actx.boxes[actx.boxes[k].over.over.idx].refs[j]
                         = actx.boxes[k].refs[i].over

\* the box of the knot at k when the boxes of the iterator are linked with
\* no reference handed to the iterator
Unasked(k) ==
    LET node == actx.boxes[k].over IN
    link_boxes(Reversed(node.iterator_boxes),
               [actx EXCEPT !.boxes = [ClearRefs(@, node.iterator_boxes) EXCEPT
                                          ![k].refs = <<>>]]).boxes[k]

\* link has completed and the knot holds a reference that the loop had to
\* go round for: no box downstream of the IntIterate asked for its target,
\* and the iterator asks for it only when it is handed references itself
C11_Witness ==
    /\ Linked
    /\ \E k \in Knots :
          /\ IterateBoxes(k) # {}
          /\ \E t \in Overs(k) :
                /\ \A j \in IterateBoxes(k) :
                      \A i \in 1..Len(actx.boxes[j].refs) : actx.boxes[j].refs[i] # t
                /\ \A i \in 1..Len(Unasked(k).refs) : Unasked(k).refs[i].over # t

(***************************************************************************)
(* A Where with the condition true, against the query without it.          *)
(***************************************************************************)
\* render(node) at the depth Serialize: the SQLString, or Null when a pass
\* raises
Rendered(node) ==
    LET Let_s(s) ==
            IF Failed(s) THEN Null ELSE SQLString(s)
        Let_t(t) ==
            IF Failed(t.ctx) THEN Null
            ELSE Let_s(serialize(t.out, SerializationContext(dialect_default)))
        Let_l(a, l) ==
            IF Failed(l) THEN Null
            ELSE Let_t(translate_toplevel(a.out, TranslateContext(l)))
        Let_r(a, r) ==
            IF Failed(r) THEN Null ELSE Let_l(a, link_toplevel(r))
        Let_a(a) ==
            IF Failed(a.ctx) THEN Null ELSE Let_r(a, resolve_toplevel(a.ctx))
    IN IF RaisedDuplicateLabel(node) THEN Null ELSE Let_a(annotate(node, AnnotateContext))

IsTrueWhere(node) == node.kind = "Where" /\ node.condition = BoolLit(TRUE)

\* the query with every Where(true) on its spine of over links taken out
RECURSIVE WithoutTrueWhere(_)
WithoutTrueWhere(node) ==
    IF node = Null \/ node.kind \in {"From", "Get"} THEN node
    ELSE IF IsTrueWhere(node) THEN WithoutTrueWhere(node.over)
    ELSE [node EXCEPT !.over = WithoutTrueWhere(@)]

RECURSIVE HasTrueWhere(_)
HasTrueWhere(node) ==
    /\ node # Null
    /\ node.kind \notin {"From", "Get"}
    /\ (IsTrueWhere(node) \/ HasTrueWhere(node.over))

\* C12: a Where whose condition translates to the literal true is
\* eliminated: the SQL that render gives for the query is the SQL it gives
\* for the query without that Where, alias names included, whether the base
\* of the Where hosts a condition inline or has to be wrapped in a subquery.
C12_TrueWhereEliminated ==
    (pc = "returned" /\ depth = SERIALIZE /\ HasTrueWhere(query))
        => output = Rendered(WithoutTrueWhere(query))

(***************************************************************************)
(* The scope of the CTE names, read off the query that was given to        *)
(* render: Scoped walks the query in the order annotate does and keeps     *)
(* the definitions in scope, each as the id of the node that the           *)
(* reference leads to (the arg of a With, or the Iterate, whose box of     *)
(* the Knot it is).                                                        *)
(***************************************************************************)
ToCTE(name, def) == [to |-> "cte", name |-> name, id |-> def.id, knot |-> def.knot]
ToTable(name) == [to |-> "table", name |-> name]
ToNothing(name) == [to |-> "undefined", name |-> name]

\* what a From(symbol) met under the definitions env is to resolve to
InScope(name, env) ==
    IF DHas(env, name) THEN ToCTE(name, DGet(env, name, Null))
    ELSE IF DHas(catalog, name) THEN ToTable(name)
    ELSE ToNothing(name)

RECURSIVE WithDefs(_, _, _)
WithDefs(node, i, env) ==
    IF i > Len(node.label_map) THEN env
    ELSE WithDefs(node, i + 1,
                  DPut(env, node.label_map[i].key,
                       [id |-> node.args[node.label_map[i].val + 1].id, knot |-> FALSE]))

\* the From(symbol) nodes of the query in the order annotate meets them,
\* each with what it is to resolve to
RECURSIVE Scoped(_, _, _)
RECURSIVE ScopedList(_, _, _)
Scoped(node, scalar, env) ==
    IF node = Null THEN <<>>
    ELSE IF scalar /\ node.kind \notin TabularKinds
    THEN CASE node.kind \in {"As", "Sort"} -> Scoped(node.over, TRUE, env)
           [] node.kind = "Bind" ->
                 Scoped(node.over, FALSE, env) \o ScopedList(node.args, TRUE, env)
           [] node.kind = "Agg" -> ScopedList(node.args \o <<node.filter_>>, TRUE, env)
           [] node.kind = "Fun" -> ScopedList(node.args, TRUE, env)
           [] OTHER -> <<>>
    ELSE CASE node.kind = "From" ->
                 IF node.source.k = "Symbol" THEN <<InScope(node.source.name, env)>>
                 ELSE <<>>
           [] node.kind = "With" ->
                 ScopedList(node.args, FALSE, env)
                    \o Scoped(node.over, FALSE, WithDefs(node, 1, env))
           [] node.kind = "Iterate" ->
                 Scoped(node.over, FALSE, env)
                    \o Scoped(node.iterator, FALSE,
                              DPut(env, label(node.iterator), [id |-> node.id, knot |-> TRUE]))
           [] node.kind = "Append" -> ScopedList(<<node.over>> \o node.args, FALSE, env)
           [] node.kind = "Join" ->
                 ScopedList(<<node.over, node.joinee>>, FALSE, env)
                    \o Scoped(node.on, TRUE, env)
           [] node.kind \in {"As", "Limit"} -> Scoped(node.over, FALSE, env)
           [] node.kind \in {"Bind", "Define", "Select"} ->
                 Scoped(node.over, FALSE, env) \o ScopedList(node.args, TRUE, env)
           [] node.kind \in {"Group", "Order"} ->
                 Scoped(node.over, FALSE, env) \o ScopedList(node.by, TRUE, env)
           [] node.kind = "Partition" ->
                 Scoped(node.over, FALSE, env)
                    \o ScopedList(node.by \o node.order_by, TRUE, env)
           [] node.kind = "Where" ->
                 Scoped(node.over, FALSE, env) \o Scoped(node.condition, TRUE, env)
           [] OTHER -> <<>>
ScopedList(nodes, scalar, env) ==
    IF nodes = <<>> THEN <<>>
    ELSE Scoped(Head(nodes), scalar, env) \o ScopedList(Tail(nodes), scalar, env)

\* the ids of the From(symbol) nodes of the query
RECURSIVE SymbolFroms(_)
SymbolFroms(node) ==
    IF node = Null THEN {}
    ELSE (IF node.kind = "From" /\ node.source.k = "Symbol" THEN {node.id} ELSE {})
            \cup UNION {SymbolFroms(Kids(node)[i]) : i \in 1..Len(Kids(node))}

\* what annotate made of the From(symbol) nodes, in the order of the boxes
Resolutions ==
    LET froms == SymbolFroms(query)
        at == SelectSeq([i \in 1..Len(actx.boxes) |-> i],
                        LAMBDA i : /\ actx.boxes[i].origin \in froms
                                   /\ actx.boxes[i].over # Null
                                   /\ actx.boxes[i].over.kind \in {"FromReference", "FromTable"})
    IN [n \in 1..Len(at) |->
          LET over == actx.boxes[at[n]].over IN
          IF over.kind = "FromTable" THEN ToTable(over.table.name)
          ELSE [to |-> "cte", name |-> over.name,
                id |-> actx.boxes[over.over.idx].origin,
                knot |-> actx.boxes[over.over.idx].over.kind = "Knot"]]

\* the entries of seq before the first one that resolves to nothing
RECURSIVE UntilUndefined(_)
UntilUndefined(seq) ==
    IF seq = <<>> \/ Head(seq).to = "undefined" THEN <<>>
    ELSE <<Head(seq)>> \o UntilUndefined(Tail(seq))

C14_ScopeRestored ==
    Len(passes) >= 1 => actx.cte_nodes = AnnotateContext.cte_nodes

\* the part of C14 that the code keeps: a body that returns leaves the
\* scope as it was
C14_ScopeRestoredOnReturn ==
    Annotated => actx.cte_nodes = AnnotateContext.cte_nodes

(***************************************************************************)
(* The text of LIMIT.                                                      *)
(***************************************************************************)
\* the words that the Regular style has for an offset and a limit, each on
\* a line of its own
RegularLimitText(self, ctx) ==
    LET Let_c1(c1) ==
            IF self.limit = <<>> THEN c1
            ELSE write(newline(c1),
                       (IF self.offset = <<>> THEN "FETCH FIRST " ELSE "FETCH NEXT ")
                           \o ToString(self.limit[1])
                           \o (IF self.limit[1] = 1 THEN " ROW" ELSE " ROWS")
                           \o (IF self.with_ties THEN " WITH TIES" ELSE " ONLY"))
    IN Let_c1(IF self.offset = <<>> THEN ctx
              ELSE write(newline(ctx),
                         "OFFSET " \o ToString(self.offset[1])
                             \o (IF self.offset[1] = 1 THEN " ROW" ELSE " ROWS")))

\* serialize has run on a SELECT whose over is a LIMIT with a limit or an
\* offset
SerializedLimit ==
    /\ Len(passes) = 5
    /\ output_clause.clause = "SELECT"
    /\ output_clause.over # Null
    /\ output_clause.over.clause = "LIMIT"
    /\ (output_clause.over.limit # <<>> \/ output_clause.over.offset # <<>>)

\* C15: under the Regular style of the default dialect a LIMIT with a limit
\* or an offset is written as OFFSET n ROW or ROWS, then FETCH FIRST m or
\* FETCH NEXT m, ROW or ROWS, ONLY or WITH TIES, after the text of the
\* clauses it is over
C15_LimitEmitted ==
    SerializedLimit =>
        /\ pc = "returned"
        /\ output = SQLString(RegularLimitText(
                        output_clause.over,
                        serialize([output_clause EXCEPT !.over.limit = <<>>,
                                                        !.over.offset = <<>>],
                                  SerializationContext(dialect_default))))

(***************************************************************************)
(* The end of the loop of resolve_knot.                                    *)
(***************************************************************************)
\* one round of the loop of resolve_knot on the box at k
KnotRound(k, ctx) ==
    resolve_boxes(ctx.boxes[k].over.iterator_boxes,
                  [ctx EXCEPT !.boxes[k].typ =
                                 intersect(@, box_type(ctx, ctx.boxes[k].over.iterator))])

\* the loop was cut at a knot whose row is not a subset of the iterator's
\* and which a further round leaves as it is: the loop of the code goes on
\* for ever
KnotLoopsForever ==
    /\ err # Null /\ err.kind = "diverged" /\ err.at = "resolve"
    /\ LET ctx == [actx EXCEPT !.err = Null] IN
       \E k \in Knots :
          /\ ~is_subset(ctx.boxes[k].typ.row, box_type(ctx, ctx.boxes[k].over.iterator).row)
          /\ KnotRound(k, ctx) = ctx

\* C16: the loop of resolve_knot ends for every base and every iterator,
\* a base with Ambiguous fields included: resolve is never cut within the
\* loop, and returns with the row of the knot a subset of the row of the
\* iterator or raises an error of the library
C16_KnotTerminates ==
    /\ ~(err # Null /\ err.kind = "diverged" /\ err.at = "resolve")
    /\ ~KnotLoopsForever

(***************************************************************************)
(* The handles of the boxes once resolve has completed.                    *)
(***************************************************************************)
\* the handles that make_handle has given out
AllocatedHandles == {actx.handles[i].val : i \in 1..Len(actx.handles)}

\* the box at i is of a node that a bound reference targets
IsTarget(i) == actx.boxes[i].over # Null /\ DHas(actx.handles, actx.boxes[i].origin)

\* the box at i carries the handle of its node, and its type maps that
\* handle to its row; or it carries a handle that was given to no node
HandleSettled(i) ==
    LET box == actx.boxes[i] IN
    IF IsTarget(i)
    THEN /\ box.handle = DGet(actx.handles, box.origin, NEGATIVE_INT)
         /\ DGet(box.typ.handle_map, box.handle, Null) = box.typ.row
    ELSE box.handle \notin AllocatedHandles

\* C17: after resolve every box of the context, the boxes made for a
\* missing over included, has the handle that make_handle gave to its
\* original node when that node is the target of a bound reference, and
\* otherwise a handle that equals no handle given out, so that no
\* HandleBound matches a box that is not its target
C17_BoxHandles ==
    Resolved => \A i \in 1..Len(actx.boxes) : HandleSettled(i)

\* the part of C17 that the code keeps: the boxes that are over a node
C17_BoxHandlesOverNode ==
    Resolved => \A i \in 1..Len(actx.boxes) : actx.boxes[i].over # Null => HandleSettled(i)

\* resolve has completed on a query with a box over nothing and a box that
\* is the target of a bound reference
C17_MissingOverAndTarget ==
    /\ Resolved
    /\ \E i, j \in 1..Len(actx.boxes) : actx.boxes[i].over = Null /\ IsTarget(j)

(***************************************************************************)
(* The order of the boxes in the list of the context.                      *)
(***************************************************************************)
IsBox(node) == node # Null /\ node.kind = "Box"

\* the boxes that the fields of the node name: its over, the joinee of a
\* join, the args of Append and With
BoxesUnder(node) ==
    (IF "over" \in DOMAIN node /\ IsBox(node.over) THEN {node.over.idx} ELSE {})
        \cup (IF node.kind = "IntJoin" /\ IsBox(node.joinee) THEN {node.joinee.idx} ELSE {})
        \cup (IF node.kind \in {"Append", "With"}
              THEN {node.args[a].idx : a \in {a \in 1..Len(node.args) : IsBox(node.args[a])}}
              ELSE {})

\* the boxes whose type resolve reads to give the box at i its type; for an
\* IntIterate these are the box of the Knot and, in resolve_knot, the box of
\* the iterator and the boxes of the iterator that are resolved again
Reads(i) ==
    LET node == actx.boxes[i].over IN
    IF node = Null THEN {}
    ELSE BoxesUnder(node)
            \cup (IF node.kind = "IntIterate"
                  THEN {actx.boxes[node.over.idx].over.iterator.idx}
                          \cup SeqToSet(actx.boxes[node.over.idx].over.iterator_boxes)
                  ELSE {})

\* the boxes into whose refs link of the box at i puts references
Pushes(i) ==
    LET node == actx.boxes[i].over IN
    IF node = Null THEN {}
    ELSE BoxesUnder(node) \cup (IF node.kind = "Knot" THEN {node.iterator.idx} ELSE {})

\* C18: the list of boxes is in dependency order.  The root box is the last
\* one; every box whose type resolve reads for a box b comes before b; every
\* box into which link of b puts references comes before b, and so is
\* linked after b in the backward walk, but for the boxes of the iterator
\* of a Knot, which are the boxes right after the box of the Knot up to the
\* box of the iterator and which link of the Knot links again.
C18_DependencyOrder ==
    Annotated =>
        /\ node_annotated = BoxRef(Len(actx.boxes))
        /\ \A i \in 1..Len(actx.boxes) :
              /\ \A j \in Reads(i) : j < i
              /\ \A j \in Pushes(i) :
                    \/ j < i
                    \/ /\ actx.boxes[i].over.kind = "Knot"
                       /\ j \in SeqToSet(actx.boxes[i].over.iterator_boxes)
              /\ (actx.boxes[i].over # Null /\ actx.boxes[i].over.kind = "Knot") =>
                    actx.boxes[i].over.iterator_boxes =
                        [k \in 1..(actx.boxes[i].over.iterator.idx - i) |-> i + k]

\* annotate has completed on a query with a Knot whose iterator holds a
\* FromReference to it, an IntIterate over the Knot, and a join
C18_Witness ==
    /\ Annotated
    /\ \E i, j, k, m \in 1..Len(actx.boxes) :
          /\ actx.boxes[i].over # Null /\ actx.boxes[i].over.kind = "Knot"
          /\ actx.boxes[j].over # Null /\ actx.boxes[j].over.kind = "FromReference"
          /\ actx.boxes[j].over.over = BoxRef(i)
          /\ i < j /\ j <= actx.boxes[i].over.iterator.idx
          /\ actx.boxes[k].over # Null /\ actx.boxes[k].over.kind = "IntIterate"
          /\ actx.boxes[k].over.over = BoxRef(i)
          /\ actx.boxes[m].over # Null /\ actx.boxes[m].over.kind = "IntJoin"

(***************************************************************************)
(* The skip of an IntJoin, at link and at translate.                       *)
(***************************************************************************)
IntJoins ==
    {i \in 1..Len(actx.boxes) : actx.boxes[i].over # Null /\ actx.boxes[i].over.kind = "IntJoin"}

\* the references that link_boxes hands to link for the box at i
Requested(i) ==
    LET box == actx.boxes[i] IN
    [r \in 1..Len(box.refs) |->
        IF box.refs[r].kind = "HandleBound" /\ box.refs[r].handle = box.handle
        THEN box.refs[r].over ELSE box.refs[r]]

\* the reference goes to the joinee of the IntJoin at i
RoutesRight(i, ref) ==
    route(actx.boxes[actx.boxes[i].over.over.idx].typ,
          actx.boxes[actx.boxes[i].over.joinee.idx].typ, ref) >= 0

\* the ids of the Join nodes of the written query that have skip set
RECURSIVE SkipJoins(_)
SkipJoins(node) ==
    IF node = Null THEN {}
    ELSE (IF node.kind = "Join" /\ node.skip THEN {node.id} ELSE {})
            \cup UNION {SkipJoins(Kids(node)[k]) : k \in 1..Len(Kids(node))}

\* the Join that the IntJoin at i was written as has skip set
WrittenSkip(i) == actx.boxes[i].origin \in SkipJoins(query)

\* C19: after link, an IntJoin one of whose requested references goes to
\* the right side has skip cleared, and skip is set only where the Join was
\* written with it; where skip is still set, the refs of the left box are
\* the requested references and no other, the refs of the right box are
\* untouched and no lateral reference was gathered; translate then gives
\* for the box of the join the assemblage of its left box, with no JOIN of
\* this node.
C19_JoinSkipped ==
    /\ Linked =>
          \A i \in IntJoins :
              LET node == actx.boxes[i].over IN
              /\ (\E r \in 1..Len(Requested(i)) : RoutesRight(i, Requested(i)[r])) => ~node.skip
              /\ node.skip => WrittenSkip(i)
              /\ node.skip =>
                    /\ actx.boxes[node.over.idx].refs = Requested(i)
                    /\ actx.boxes[node.joinee.idx].refs = <<>>
                    /\ node.lateral = <<>>
    /\ Translated =>
          \A i \in IntJoins :
              actx.boxes[i].over.skip =>
                  assemble_box(BoxRef(i), TranslateContext(actx)).out
                      = assemble_box(actx.boxes[i].over.over, TranslateContext(actx)).out

\* translate has completed on a query with a join that was asked for
\* references, all of the left side, and was skipped: its assemblage is the
\* FROM of the left side
C19_SkippedWitness ==
    /\ Translated
    /\ \E i \in IntJoins :
          /\ actx.boxes[i].over.skip
          /\ Len(Requested(i)) > 0
          /\ assemble_box(BoxRef(i), TranslateContext(actx)).out.clause.clause = "FROM"

(***************************************************************************)
(* A chain of Where nodes.                                                 *)
(***************************************************************************)
\* the conditions of the Where nodes on top of the query, the innermost
\* first, and the node that the chain is over
RECURSIVE ChainConditions(_)
ChainConditions(node) ==
    IF node = Null \/ node.kind # "Where" THEN <<>>
    ELSE Append(ChainConditions(node.over), node.condition)

RECURSIVE ChainBase(_)
ChainBase(node) ==
    IF node = Null \/ node.kind # "Where" THEN node ELSE ChainBase(node.over)

\* the query is two or more Where nodes, with a condition other than true
\* among them, over a base
IsWhereChain(node) ==
    /\ node.kind = "Where" /\ node.over # Null /\ node.over.kind = "Where"
    /\ \E i \in 1..Len(ChainConditions(node)) : ChainConditions(node)[i] # BoolLit(TRUE)

\* the base is translated to a clause that hosts a condition
HostsCondition(node) ==
    \/ node.kind \in {"From", "Join"}
    \/ node.kind = "Group" /\ Len(node.by) > 0

\* one Where over the base of the chain, with the and of the conditions of
\* the chain in query order
AsOneWhere(node) ==
    Where(node.id,
          Fun("and", SelectSeq(ChainConditions(node), LAMBDA c : c # BoolLit(TRUE))),
          ChainBase(node))

\* render(node) at the depth Translate: the clause, or Null when a pass
\* raises
TranslatedClause(node) ==
    LET Let_t(t) ==
            IF Failed(t.ctx) THEN Null ELSE t.out
        Let_l(a, l) ==
            IF Failed(l) THEN Null
            ELSE Let_t(translate_toplevel(a.out, TranslateContext(l)))
        Let_r(a, r) ==
            IF Failed(r) THEN Null ELSE Let_l(a, link_toplevel(r))
        Let_a(a) ==
            IF Failed(a.ctx) THEN Null ELSE Let_r(a, resolve_toplevel(a.ctx))
    IN Let_a(annotate(node, AnnotateContext))

\* the conditions that merge_conditions is given: comparisons, and ANDs of
\* them with an AND among the operands or without
Comparisons == {OP(">", <<ID("a", Null), LIT(IntVal(n))>>) : n \in 0..2}
Conditions ==
    Comparisons
        \cup {OP("AND", <<x, y>>) : x, y \in Comparisons}
        \cup {OP("AND", <<x, OP("AND", <<y, x>>)>>) : x, y \in Comparisons}

\* merge_conditions gives the same condition however three conditions are
\* grouped, and lists the operands of the two in order
C20_MergeAssociative ==
    \A x, y, z \in Conditions :
        /\ merge_conditions(merge_conditions(x, y), z)
              = merge_conditions(x, merge_conditions(y, z))
        /\ merge_conditions(x, y).args
              = (IF IsAnd(x) THEN x.args ELSE <<x>>) \o (IF IsAnd(y) THEN y.args ELSE <<y>>)

\* C20: a chain of Where nodes over a base that hosts a condition is
\* translated to a single WHERE, a single HAVING over a GROUP with keys,
\* whose condition is one flat AND of the conjuncts of all the conditions
\* in query order, with no operand that is itself an AND, the same clause
\* as the one of a single Where with the and of the conditions;
\* merge_conditions is associative; over a base that does not host a
\* condition the WHERE is over the base as an aliased subquery.
C20_WhereChainMerged ==
    /\ C20_MergeAssociative
    /\ (Translated /\ IsWhereChain(query)) =>
          LET top == output_clause.over IN
          /\ top.clause = (IF ChainBase(query).kind = "Group" /\ HostsCondition(ChainBase(query))
                           THEN "HAVING" ELSE "WHERE")
          /\ top.over.clause \notin {"WHERE", "HAVING"}
          /\ IsAnd(top.condition) =>
                \A i \in 1..Len(top.condition.args) : ~IsAnd(top.condition.args[i])
          /\ output_clause = TranslatedClause(AsOneWhere(query))
          /\ ~HostsCondition(ChainBase(query)) =>
                /\ top.over.clause = "FROM"
                /\ top.over.over.clause = "AS"
                /\ top.over.over.over.clause \in {"SELECT", "UNION"}

\* the parts of C20 other than the flatness of the AND
C20_WhereChainSingle ==
    (Translated /\ IsWhereChain(query)) =>
        LET top == output_clause.over IN
        /\ top.clause = (IF ChainBase(query).kind = "Group" /\ HostsCondition(ChainBase(query))
                         THEN "HAVING" ELSE "WHERE")
        /\ top.over.clause \notin {"WHERE", "HAVING"}
        /\ output_clause = TranslatedClause(AsOneWhere(query))
        /\ ~HostsCondition(ChainBase(query)) =>
              /\ top.over.clause = "FROM"
              /\ top.over.over.clause = "AS"
              /\ top.over.over.over.clause \in {"SELECT", "UNION"}

(***************************************************************************)
(* The translation of Fun and, Fun or.                                     *)
(***************************************************************************)
\* the query selects one column, which is an and or an or
SelectsAndOr(node) ==
    /\ node.kind = "Select" /\ Len(node.args) = 1
    /\ node.args[1].kind = "As" /\ node.args[1].over.kind = "Fun"
    /\ node.args[1].over.name \in {"and", "or"}

\* the clause that translate gives for the condition as the one column of
\* a Select over the same base
ClauseOf(condition, base) ==
    TranslatedClause(Select(2, <<As(0, "c", condition)>>, base)).args[1].over

\* the operands with the operands of an OP of the name fn in its place
RECURSIVE Spliced(_, _)
Spliced(fn, args) ==
    IF args = <<>> THEN <<>>
    ELSE (IF IsA(Head(args), {"OP"}) /\ Head(args).name = fn THEN Head(args).args
          ELSE <<Head(args)>>) \o Spliced(fn, Tail(args))

\* C21: Fun and / Fun or is translated to LIT(true) / LIT(false) when it
\* has no argument, to its argument when it has one, to the other argument
\* when it has two and the first is the identity literal, and otherwise to
\* one OP of that name whose operands hold the operands of a nested OP of
\* the same name in the place of that OP.
C21_AndOrTranslated ==
    (Translated /\ SelectsAndOr(query)) =>
        LET fun == query.args[1].over
            fn == IF fun.name = "and" THEN "AND" ELSE "OR"
            default == LIT(BoolVal(fn = "AND"))
            args == [i \in 1..Len(fun.args) |-> ClauseOf(fun.args[i], query.over)]
            out == output_clause.args[1].over IN
        out = IF Len(args) = 0 THEN default
              ELSE IF Len(args) = 1 THEN args[1]
              ELSE IF Len(args) = 2 /\ args[1] = default THEN args[2]
              ELSE OP(fn, Spliced(fn, args))

\* the cases of C21 that the code keeps: no argument, one argument, and an
\* OP whose first operand alone is spliced
C21_AndOrAsTranslated ==
    (Translated /\ SelectsAndOr(query)) =>
        LET fun == query.args[1].over
            fn == IF fun.name = "and" THEN "AND" ELSE "OR"
            args == [i \in 1..Len(fun.args) |-> ClauseOf(fun.args[i], query.over)]
            out == output_clause.args[1].over IN
        out = IF Len(args) = 0 THEN LIT(BoolVal(fn = "AND"))
              ELSE IF Len(args) = 1 THEN args[1]
              ELSE OP(fn, Spliced(fn, <<args[1]>>) \o Tail(args))

(***************************************************************************)
(* The scope of the variables bound by Bind.                               *)
(***************************************************************************)
RECURSIVE HasBind(_)
HasBind(node) ==
    \/ node.kind = "Bind"
    \/ \E i \in 1..Len(Kids(node)) : HasBind(Kids(node)[i])

\* the args of every Bind are built of literals, variables and functions
RECURSIVE ClosedValue(_)
ClosedValue(node) ==
    /\ node.kind \in {"As", "Lit", "Var", "Fun"}
    /\ \A i \in 1..Len(Kids(node)) : ClosedValue(Kids(node)[i])

RECURSIVE ClosedBinds(_)
ClosedBinds(node) ==
    /\ node.kind = "Bind" => \A i \in 1..Len(node.args) : ClosedValue(node.args[i])
    /\ \A i \in 1..Len(Kids(node)) : ClosedBinds(Kids(node)[i])

\* The query with every Var in the place of which stands the arg of the
\* innermost enclosing Bind that binds its name, the args of a Bind read in
\* the scope outside that Bind, and no Bind left.  With through set, the
\* bindings hold under an Iterate as everywhere else; without, the nodes
\* under an Iterate see no binding made above it.
RECURSIVE Inlined(_, _, _)
InlinedAll(nodes, env, through) ==
    [i \in 1..Len(nodes) |-> Inlined(nodes[i], env, through)]

RECURSIVE BoundBy(_, _, _, _, _)
BoundBy(node, i, env, outer, through) ==
    IF i > Len(node.label_map) THEN env
    ELSE LET arg == node.args[node.label_map[i].val + 1]
             value == IF arg.kind = "As" THEN arg.over ELSE arg IN
         BoundBy(node, i + 1,
                 DPut(env, node.label_map[i].key, Inlined(value, outer, through)),
                 outer, through)

Inlined(node, env, through) ==
    LET In(n) == Inlined(n, env, through)
        InAll(ns) == InlinedAll(ns, env, through)
        under == IF through THEN env ELSE <<>> IN
    CASE node.kind = "Var" -> DGet(env, node.name, node)
      [] node.kind = "Bind" -> Inlined(node.over, BoundBy(node, 1, env, env, through), through)
      [] node.kind = "Iterate" ->
            [node EXCEPT !.iterator = Inlined(@, under, through),
                         !.over = Inlined(@, under, through)]
      [] node.kind \in {"Get", "As", "Sort", "Limit"} -> [node EXCEPT !.over = In(@)]
      [] node.kind = "Fun" -> [node EXCEPT !.args = InAll(@)]
      [] node.kind = "Agg" ->
            [node EXCEPT !.args = InAll(@), !.filter_ = In(@), !.over = In(@)]
      [] node.kind = "Where" -> [node EXCEPT !.condition = In(@), !.over = In(@)]
      [] node.kind \in {"Order", "Group"} -> [node EXCEPT !.by = InAll(@), !.over = In(@)]
      [] node.kind \in {"Append", "Select", "Define", "With"} ->
            [node EXCEPT !.args = InAll(@), !.over = In(@)]
      [] node.kind = "Join" ->
            [node EXCEPT !.joinee = In(@), !.on = In(@), !.over = In(@)]
      [] node.kind = "Partition" ->
            [node EXCEPT !.by = InAll(@), !.order_by = InAll(@), !.over = In(@)]
      [] OTHER -> node

\* C22: a Var is translated to the clause of the arg labelled with its name
\* of the innermost enclosing Bind that binds the name, wherever below that
\* Bind it sits, and to VAR(name) when no enclosing Bind binds it; the args
\* of a Bind are translated in the scope outside it, and no node outside
\* the over of a Bind sees its bindings.
C22_VarScope ==
    (Translated /\ HasBind(query) /\ ClosedBinds(query)) =>
        output_clause = TranslatedClause(Inlined(query, <<>>, TRUE))

\* the scope as the code has it: the nodes under an Iterate are translated
\* with no binding of the Binds above it
C22_VarScopeIterate ==
    (Translated /\ HasBind(query) /\ ClosedBinds(query)) =>
        output_clause = TranslatedClause(Inlined(query, <<>>, FALSE))

(***************************************************************************)
(* The scopes of the variable map and of the substitution map.             *)
(***************************************************************************)
TranslateRan == Len(passes) >= TRANSLATE

MaxPairs == 3
RefLabels == {"a", "a_2", "b"}
ColumnClauses == {ID("x", Null), ID("y", Null)}

TranslatesOf(labels, clauses) ==
    [i \in 1..Len(labels) |-> Pair(NewGet(i, labels[i]), clauses[i])]

ReplNCols ==
    /\ fc.status = "idle"
    /\ \E n \in 1..MaxPairs :
         \E labels \in [1..n -> RefLabels], clauses \in [1..n -> ColumnClauses] :
            LET Let_r(translates, r) ==
                    fc' = [status |-> "done", translates |-> translates,
                           repl |-> r.repl, cols |-> r.cols]
                Let_t(translates) ==
                    Let_r(translates, translates_to_repl_n_cols(translates))
            IN Let_t(TranslatesOf(labels, clauses))
    /\ UNCHANGED <<query, depth, pc, actx, tctx, node_annotated, output_clause, output,
                   err, passes, lm, vl, al, sr>>

SpecRepl == InitAll /\ [][ReplNCols]_vars

AliasOf(i) == DGet(fc.repl, fc.translates[i].ref, "")
SamePair(i, j) ==
    /\ label(fc.translates[i].ref) = label(fc.translates[j].ref)
    /\ fc.translates[i].clause = fc.translates[j].clause

\* every ref has an alias that is a key of cols, and pairs with the same
\* label and equal clauses share their alias
AliasesShared ==
    /\ \A i \in 1..Len(fc.translates) :
          DHas(fc.repl, fc.translates[i].ref) /\ DHas(fc.cols, AliasOf(i))
    /\ \A i, j \in 1..Len(fc.translates) : SamePair(i, j) => AliasOf(i) = AliasOf(j)

\* pairs that differ in label or in clause have different aliases, and the
\* column under an alias is the clause of the pairs mapped to it
AliasesApart ==
    /\ \A i, j \in 1..Len(fc.translates) : ~SamePair(i, j) => AliasOf(i) # AliasOf(j)
    /\ \A i \in 1..Len(fc.translates) :
          DGet(fc.cols, AliasOf(i), Null) = fc.translates[i].clause

\* C24: translates_to_repl_n_cols maps every ref to an alias that is a key
\* of cols; pairs with the same label and equal clauses share one alias;
\* pairs that differ in label or in clause get different aliases, and the
\* column under each alias is the clause of the pairs mapped to it, also
\* for labels that end in _2, _3, ...
C24_AliasesUnique ==
    fc.status = "done" => AliasesShared /\ AliasesApart

\* a label of the list is the alias name_k made for the k-th pair of
\* another label
LabelIsAlias ==
    \E i, j \in 1..Len(fc.translates), k \in 2..MaxPairs :
        label(fc.translates[i].ref) = label(fc.translates[j].ref) \o "_" \o ToString(k)

\* the part of C24 that the code keeps: shared aliases always, distinct
\* aliases and the right columns when no label has the form of a made alias
C24_AliasesUniqueUnlessMade ==
    fc.status = "done" => AliasesShared /\ (~LabelIsAlias => AliasesApart)

(***************************************************************************)
(* union on its own: the box types of the two sides of a join.             *)
(***************************************************************************)
InnerRows == {LeafRow, RowType(FieldsOf(AmbiguousType, ScalarType), EmptyType),
              RowType(FieldsOf(EmptyType, ScalarType), LeafRow)}
SideRows ==
    RowsOfDepth(0)
        \cup {RowType(FieldsOf(a, b), g) :
                a \in InnerRows, b \in {EmptyType, ScalarType}, g \in Groups}
SideHandles ==
    {<<>>, <<[key |-> 0, val |-> LeafRow]>>, <<[key |-> 1, val |-> LeafRow]>>,
     <<[key |-> 0, val |-> AmbiguousType], [key |-> 1, val |-> LeafRow]>>}

UnionOfSides ==
    /\ fc.status = "idle"
    /\ \E lrow \in SideRows, rrow \in SideRows, lh \in SideHandles, rh \in SideHandles :
          LET Let_t(lt, rt) ==
                  fc' = [status |-> "done", lt |-> lt, rt |-> rt,
                         t |-> union(lt, rt), swapped |-> union(rt, lt)]
          IN Let_t(BoxType("person", lrow, lh), BoxType("visit", rrow, rh))
    /\ UNCHANGED <<query, depth, pc, actx, tctx, node_annotated, output_clause, output,
                   err, passes, lm, vl, al, sr>>

SpecUnion == InitAll /\ [][UnionOfSides]_vars

\* the fields f are those of f1 united with those of f2
RECURSIVE UnitesFields(_, _, _)
UnitesRows(row, row1, row2) ==
    /\ UnitesFields(row.fields, row1.fields, row2.fields)
    /\ row.group = IF row1.group = EmptyType THEN row2.group
                   ELSE IF row2.group = EmptyType THEN row1.group
                   ELSE AmbiguousType

UnitesFields(f, f1, f2) ==
    /\ DKeySet(f) = DKeySet(f1) \cup DKeySet(f2)
    /\ Len(f) = Cardinality(DKeySet(f))
    /\ \A name \in DKeySet(f) :
          LET t == DGet(f, name, EmptyType)
              t1 == DGet(f1, name, EmptyType)
              t2 == DGet(f2, name, EmptyType) IN
          IF ~DHas(f2, name) THEN t = t1
          ELSE IF ~DHas(f1, name) THEN t = t2
          ELSE IF t1.k = "Row" /\ t2.k = "Row" THEN UnitesRows(t, t1, t2)
          ELSE t = AmbiguousType

\* the handles are those of either side, Ambiguous when on both
UnitesHandles(hm, hm1, hm2) ==
    /\ DKeySet(hm) = DKeySet(hm1) \cup DKeySet(hm2)
    /\ Len(hm) = Cardinality(DKeySet(hm))
    /\ \A h \in DKeySet(hm) :
          DGet(hm, h, EmptyType) =
              IF DHas(hm1, h) /\ DHas(hm2, h) THEN AmbiguousType
              ELSE IF DHas(hm1, h) THEN DGet(hm1, h, EmptyType)
              ELSE DGet(hm2, h, EmptyType)

\* the same fields with the same types, whatever the order of the entries
RECURSIVE SameFields(_, _)
SameRows(row1, row2) == SameFields(row1.fields, row2.fields) /\ row1.group = row2.group
SameFields(f1, f2) ==
    /\ DKeySet(f1) = DKeySet(f2)
    /\ \A name \in DKeySet(f1) :
          LET t1 == DGet(f1, name, EmptyType)
              t2 == DGet(f2, name, EmptyType) IN
          IF t1.k = "Row" /\ t2.k = "Row" THEN SameRows(t1, t2) ELSE t1 = t2

\* C25: the type of a join is the union of its sides: a field of one side
\* keeps its type, a field of both sides is Ambiguous unless both are rows,
\* which are united in the same way; a handle of both handle maps is
\* Ambiguous; the group is the one non-Empty group of the sides, Ambiguous
\* when both have one; and union(rt, lt) is union(lt, rt) but for the box
\* name, which is that of the first argument.
C25_JoinUnion ==
    fc.status = "done" =>
        /\ fc.t.k = "Box" /\ fc.t.name = fc.lt.name
        /\ UnitesRows(fc.t.row, fc.lt.row, fc.rt.row)
        /\ UnitesHandles(fc.t.handle_map, fc.lt.handle_map, fc.rt.handle_map)
        /\ fc.swapped.name = fc.rt.name
        /\ SameRows(fc.swapped.row, fc.t.row)
        /\ SameFields(fc.swapped.handle_map, fc.t.handle_map)

\* a field that is a row on both sides, a field of one side only, a handle
\* on both sides and a group on both sides
C25_Witness ==
    /\ fc.status = "done"
    /\ \E name \in DKeySet(fc.lt.row.fields) \cap DKeySet(fc.rt.row.fields) :
          /\ DGet(fc.lt.row.fields, name, EmptyType).k = "Row"
          /\ DGet(fc.rt.row.fields, name, EmptyType).k = "Row"
          /\ DGet(fc.t.row.fields, name, EmptyType).k = "Row"
    /\ DKeySet(fc.lt.row.fields) \ DKeySet(fc.rt.row.fields) # {}
    /\ DKeySet(fc.lt.handle_map) \cap DKeySet(fc.rt.handle_map) # {}
    /\ fc.lt.row.group # EmptyType /\ fc.rt.row.group # EmptyType
    /\ fc.t.row.group = AmbiguousType

(***************************************************************************)
(* assemble for FromValues on its own: a table of two columns, its rows,   *)
(* and the references to its columns that link left on the box.            *)
(***************************************************************************)
MaxRows == 3
ValueColumns == <<"x", "y">>
ValueRows == {<<IntVal(i), StrVal(s)>> : i \in {1, 2}, s \in {"a", "b"}}
ValueRefs == {<<>>, <<NewGet(1, "x")>>, <<NewGet(1, "y")>>,
              <<NewGet(1, "x"), NewGet(2, "y")>>, <<NewGet(1, "y"), NewGet(2, "x")>>}

AssembleValues ==
    /\ fc.status = "idle"
    /\ \E n \in 0..MaxRows : \E data \in [1..n -> ValueRows], refs \in ValueRefs :
          LET Let_a(node, a) ==
                  fc' = [status |-> "done", node |-> node, refs |-> refs,
                         raised |-> a.ctx.err, asmb |-> a.out]
              Let_node(node) ==
                  Let_a(node, assemble_from_values(node, refs,
                                                   TranslateContext(AnnotateContext)))
          IN Let_node([kind |-> "FromValues", source |-> ValuesTable(ValueColumns, data)])
    /\ UNCHANGED <<query, depth, pc, actx, tctx, node_annotated, output_clause, output,
                   err, passes, lm, vl, al, sr>>

SpecValues == InitAll /\ [][AssembleValues]_vars

ValuesAssembled == fc.status = "done" /\ fc.raised = Null
HasValues == IsA(fc.asmb.clause, {"FROM"}) /\ IsA(fc.asmb.clause.over.over, {"VALUES"})

\* C26: the assemblage of a FromValues whose table has no rows is the clause
\* WHERE LIT(false), without a VALUES clause, whichever of the columns are
\* referenced, none of them included.
C26_EmptyValues ==
    (ValuesAssembled /\ Len(fc.node.source.data) = 0) =>
        fc.asmb.clause = WHERE(LIT(BoolVal(FALSE)), Null)

\* the case of C26 that the code keeps: some column is referenced
C26_EmptyValuesReferenced ==
    (ValuesAssembled /\ Len(fc.node.source.data) = 0 /\ Len(fc.refs) > 0) =>
        fc.asmb.clause = WHERE(LIT(BoolVal(FALSE)), Null)

(***************************************************************************)
(* The handle table on its own: the references that annotate rewrites with *)
(* rebind on one AnnotateContext, each a Get chain over a tabular node (or *)
(* over nothing).  Two of the tabular nodes are equal but distinct objects.*)
(***************************************************************************)
TargetNodes == {From(1, person), From(2, person), From(3, visit)}
ChainsOver(top) == {top, Get("p", top), Get("p", Get("q", top))}
ParentChains == UNION {ChainsOver(top) : top \in TargetNodes \cup {Null}}

RECURSIVE TopOf(_)
TopOf(parent) == IF parent.kind = "Get" THEN TopOf(parent.over) ELSE parent

NewAnnotateContext ==
    /\ fc.status = "idle"
    /\ fc' = [status |-> "open", ctx |-> AnnotateContext, parents |-> <<>>,
              returned |-> <<>>, tables |-> <<>>]
    /\ UNCHANGED <<query, depth, pc, actx, tctx, node_annotated, output_clause, output,
                   err, passes, lm, vl, al, sr>>

Rebind ==
    /\ fc.status = "open"
    /\ Len(fc.parents) < MaxCalls
    /\ \E parent \in ParentChains :
          LET Let_r(r) ==
                  fc' = [fc EXCEPT !.ctx = r.ctx, !.parents = Append(@, parent),
                                   !.returned = Append(@, r.out),
                                   !.tables = Append(@, r.ctx.handles)]
          IN Let_r(rebind(parent, NewGet(fc.ctx.next_oid, "name"),
                          [fc.ctx EXCEPT !.next_oid = @ + 1]))
    /\ UNCHANGED <<query, depth, pc, actx, tctx, node_annotated, output_clause, output,
                   err, passes, lm, vl, al, sr>>

SpecHandle == InitAll /\ [][NewAnnotateContext \/ Rebind]_vars

\* the targets of the calls 1..k, and the table before call k
TargetsUpTo(k) == {TopOf(fc.parents[j]).id : j \in {i \in 1..k : TopOf(fc.parents[i]) # Null}}
TableBefore(k) == IF k = 1 THEN <<>> ELSE fc.tables[k - 1]

\* the HandleBound at the top of a rewritten reference, Null when there is none
BoundTo(ref) == IF ref.kind = "HandleBound" THEN ref.handle ELSE NEGATIVE_INT

\* C27: after any sequence of handle requests the table maps the n distinct
\* target nodes seen so far one-to-one onto 0..n-1; a node seen before gets
\* its earlier handle and leaves the table as it was, a new node gets n; and
\* the HandleBound that rebind makes carries the handle of the tabular node
\* at the top of the Get chain.
C27_HandleTable ==
    fc.status = "open" =>
        \A k \in 1..Len(fc.parents) :
            LET top == TopOf(fc.parents[k])
                table == fc.tables[k]
                n == Cardinality(TargetsUpTo(k - 1)) IN
            /\ DKeySet(table) = TargetsUpTo(k)
            /\ Len(table) = Cardinality(TargetsUpTo(k))
            /\ {table[i].val : i \in 1..Len(table)} = 0..(Len(table) - 1)
            /\ IF top = Null
               THEN table = TableBefore(k) /\ BoundTo(fc.returned[k]) = NEGATIVE_INT
               ELSE /\ BoundTo(fc.returned[k]) = DGet(table, top.id, NEGATIVE_INT)
                    /\ IF top.id \in TargetsUpTo(k - 1)
                       THEN /\ table = TableBefore(k)
                            /\ BoundTo(fc.returned[k]) = DGet(TableBefore(k), top.id, NEGATIVE_INT)
                       ELSE BoundTo(fc.returned[k]) = n

\* a node was seen again after another node had been given a handle
C27_Witness ==
    /\ fc.status = "open" /\ Len(fc.parents) = MaxCalls
    /\ TopOf(fc.parents[1]) # Null /\ TopOf(fc.parents[2]) # Null
    /\ TopOf(fc.parents[1]) # TopOf(fc.parents[2])
    /\ fc.parents[3] # fc.parents[1] /\ TopOf(fc.parents[3]) = TopOf(fc.parents[1])
    /\ BoundTo(fc.returned[3]) = 0
    /\ TopOf(fc.parents[4]) # Null /\ BoundTo(fc.returned[4]) = 2

(***************************************************************************)
(* The label maps after annotate.  label for the nodes that annotate makes *)
(* needs the context: the label of a Box is the name of its type.          *)
(***************************************************************************)
RECURSIVE label_annotated(_, _)
label_annotated(node, ctx) ==
    CASE node.kind = "Box" -> box_type(ctx, node).name
      [] node.kind \in {"IntJoin", "IntBind", "HandleBound", "NameBound"} ->
            label_annotated(node.over, ctx)
      [] node.kind \in {"IntIterate", "Knot"} -> node.name
      [] OTHER -> label(node)

\* populate_label_map run on annotated args
RECURSIVE populate_label_map_annotated(_, _, _, _)
populate_label_map_annotated(args, i, label_map, ctx) ==
    IF i > Len(args) THEN [raised |-> FALSE, name |-> "", label_map |-> label_map]
    ELSE LET Let_name(name) ==
                 IF DHas(label_map, name)
                 THEN [raised |-> TRUE, name |-> name, label_map |-> label_map]
                 ELSE populate_label_map_annotated(args, i + 1,
                                                   DPut(label_map, name, i - 1), ctx)
         IN Let_name(label_annotated(args[i], ctx))

LabelledArgs(node) == IF node.kind = "Group" THEN node.by ELSE node.args

\* the node of the query as written that has a label_map and the given id
RECURSIVE WrittenNodes(_, _)
WrittenNodes(node, id) ==
    (IF node.kind \in LabelMapKinds /\ node.id = id THEN {node} ELSE {})
        \cup UNION {WrittenNodes(Kids(node)[i], id) : i \in 1..Len(Kids(node))}

\* the boxes of nodes that carry a label_map
LabelMapBoxes ==
    {i \in 1..Len(actx.boxes) :
        /\ actx.boxes[i].over # Null
        /\ actx.boxes[i].over.kind \in {"Select", "Define", "Group", "IntBind", "With"}}

\* some arg of the node in box i is a Box, or an IntBind over one
RECURSIVE LabelledByBox(_)
LabelledByBox(node) ==
    \/ node.kind = "Box"
    \/ node.kind \in {"IntJoin", "IntBind", "HandleBound", "NameBound"} /\ LabelledByBox(node.over)
HasBoxArg(i) ==
    \E j \in 1..Len(LabelledArgs(actx.boxes[i].over)) :
        LabelledByBox(LabelledArgs(actx.boxes[i].over)[j])

LabelsRebuilt(i) ==
    \A w \in WrittenNodes(query, actx.boxes[i].origin) :
        LET Built(label_map) == [raised |-> FALSE, name |-> "", label_map |-> label_map] IN
        /\ actx.boxes[i].over.label_map = w.label_map
        /\ populate_label_map(LabelledArgs(w)) = Built(w.label_map)
        /\ populate_label_map_annotated(LabelledArgs(actx.boxes[i].over), 1, <<>>, actx)
              = Built(w.label_map)

\* C28: populate_label_map depends on the labels of the args only: run again
\* on the args as written it gives the map made at construction, which
\* annotate carries over unchanged, and run on the args as annotate rewrote
\* them it gives that map too.
C28_LabelsRebuilt ==
    Annotated => \A i \in LabelMapBoxes : LabelsRebuilt(i)

\* the part of C28 that the code keeps: the args that are not boxes, and
\* every arg once resolve has typed the boxes
C28_LabelsRebuiltTyped ==
    Annotated => \A i \in LabelMapBoxes : (Resolved \/ ~HasBoxArg(i)) => LabelsRebuilt(i)

(***************************************************************************)
(* intersect and is_subset on their own: two row types, or two box types.  *)
(***************************************************************************)
BoxedRows ==
    {BoxType(name, row, hm) :
        name \in {"person", "visit"}, row \in RowsOfDepth(0), hm \in SideHandles}

IntersectTypes ==
    /\ fc.status = "idle"
    /\ \/ \E a \in SideRows, b \in SideRows :
             fc' = [status |-> "done", a |-> a, b |-> b, t |-> intersect(a, b)]
       \/ \E a \in BoxedRows, b \in BoxedRows :
             fc' = [status |-> "done", a |-> a, b |-> b, t |-> intersect(a, b)]
    /\ UNCHANGED <<query, depth, pc, actx, tctx, node_annotated, output_clause, output,
                   err, passes, lm, vl, al, sr>>

SpecIntersect == InitAll /\ [][IntersectTypes]_vars

\* C29: for two row types or two box types a and b, with Scalar, Ambiguous
\* and nested row fields, intersect(a, b) is a subset of a and of b in the
\* sense of is_subset.
C29_IntersectSubset ==
    fc.status = "done" => is_subset(fc.t, fc.a) /\ is_subset(fc.t, fc.b)

\* a field or handle, at any depth, is Ambiguous on one side and present
\* with another type on the other
RECURSIVE AmbiguousApart(_, _)
AmbiguousApart(f1, f2) ==
    \E name \in DKeySet(f1) \cap DKeySet(f2) :
        LET t1 == DGet(f1, name, EmptyType)
            t2 == DGet(f2, name, EmptyType) IN
        \/ t1.k # t2.k /\ AmbiguousType \in {t1, t2}
        \/ t1.k = "Row" /\ t2.k = "Row" /\ AmbiguousApart(t1.fields, t2.fields)

Apart(a, b) ==
    IF a.k = "Row" THEN AmbiguousApart(a.fields, b.fields)
    ELSE \/ a.name # b.name
         \/ AmbiguousApart(a.row.fields, b.row.fields)
         \/ AmbiguousApart(a.handle_map, b.handle_map)

\* the part of C29 that the code keeps: box types of one name, and no field
\* or handle that is Ambiguous on one side only
C29_IntersectSubsetUnlessApart ==
    (fc.status = "done" /\ ~Apart(fc.a, fc.b)) =>
        is_subset(fc.t, fc.a) /\ is_subset(fc.t, fc.b)

(***************************************************************************)
(* The shape of the VALUES clause that assemble gives (SpecValues).         *)
(***************************************************************************)
\* the rows of the VALUES clause and the column aliases of its AS
ValuesRows == fc.asmb.clause.over.over.rows
ValuesAliases == fc.asmb.clause.over.columns.names

\* C30: the VALUES clause assembled for a FromValues has as many rows as the
\* table, and each row has as many values as there are column aliases,
\* whether all, some or none of the columns are referenced.
C30_ValuesShape ==
    (ValuesAssembled /\ HasValues) =>
        /\ Len(ValuesRows) = Len(fc.node.source.data)
        /\ \A r \in 1..Len(ValuesRows) : Len(ValuesRows[r]) = Len(ValuesAliases)

\* the case of C30 that the code keeps: some column is referenced
C30_ValuesShapeReferenced ==
    (ValuesAssembled /\ HasValues /\ Len(fc.refs) > 0) =>
        /\ Len(ValuesRows) = Len(fc.node.source.data)
        /\ \A r \in 1..Len(ValuesRows) : Len(ValuesRows[r]) = Len(ValuesAliases)

=============================================================================
